---- MODULE Spec2Model ----
(***************************************************************************)
(* Adversarial-testing module of empires-security/aisp:                    *)
(*   src/modules/adversarial-testing/scanner.py  (AdversarialScanner)      *)
(*   src/modules/adversarial-testing/main.py     (command line driver)     *)
(*                                                                         *)
(* Spec        one call on one scanner: main(), or scan_model()/           *)
(*             run_attacks() called directly after load_model()/           *)
(*             setup_endpoint() calls.                                     *)
(* SpecPredict the prediction function that setup_endpoint() installs:    *)
(*             each call posts one request body and reads one response.    *)
(* SpecExtraction  run_attacks('extraction') on test sets given by their   *)
(*             size, up to 5000 samples.                                   *)
(* SpecProcedure   run_attacks() of any category with the locals of the    *)
(*             loop body and the substitute models that are built.         *)
(* SpecInstall scan_model() after load_model()/setup_endpoint() calls that *)
(*             all succeed.                                                *)
(* SpecStatic  src/modules/static-analysis/scanner.py, scan_file().        *)
(* SpecLLM     src/modules/llm-security/scanner.py, run_tests() and        *)
(*             _prepare_results().                                         *)
(* SpecLLMRerun    the same with run_tests() called again on the scanner.  *)
(* The attack primitives, the classifiers and numpy are external: a call   *)
(* into them either raises or returns, and what the classifier predicts is *)
(* an input.                                                               *)
(***************************************************************************)
EXTENDS Integers, Sequences, FiniteSets, TLC

\* ------------------------------------------------------------------ bounds
\* largest test set (number of samples in x_test) passed to run_attacks
MaxN == 2
\* largest test set of a whole scan (main, scan_model)
MaxScanN == 1

\* nb_classes of the classifier under test
NbClasses == 2

Classes == 0 .. (NbClasses - 1)

\* ---------------------------------------------------------------- numbers
\* A success rate is the float num/den kept as a reduced fraction; den = 0
\* is the float NaN that numpy returns for the mean of an empty array.
RECURSIVE GCD(_, _)
GCD(a, b) == IF b = 0 THEN a ELSE GCD(b, a % b)

NaN == [num |-> 0, den |-> 0]

\* the float literal 0.0
Zero == [num |-> 0, den |-> 1]

Fraction(k, m) ==
    IF m = 0 THEN NaN
    ELSE LET g == GCD(k, m) IN [num |-> k \div g, den |-> m \div g]

\* np.mean of a boolean array
CountTrue(bs) == Cardinality({i \in 1 .. Len(bs) : bs[i]})

Mean(bs) == Fraction(CountTrue(bs), Len(bs))

\* 1 - r in floats: NaN stays NaN
OneMinus(r) == IF r.den = 0 THEN NaN ELSE Fraction(r.den - r.num, r.den)

\* r < 0.5 in floats: every comparison with NaN is False
LessThanHalf(r) == r.den # 0 /\ 2 * r.num < r.den

\* 0.0 <= r <= 1.0
InUnitInterval(r) == r.den # 0 /\ 0 <= r.num /\ r.num <= r.den

\* np.argmax(p, axis=1) == np.argmax(q, axis=1), p and q given as class rows
ClassesEqual(p, q) == [i \in 1 .. Len(p) |-> p[i] = q[i]]

ClassesDiffer(p, q) == [i \in 1 .. Len(p) |-> p[i] # q[i]]

Min(a, b) == IF a < b THEN a ELSE b

\* x[:k]
Take(s, k) == SubSeq(s, 1, Min(k, Len(s)))

\* -------------------------------------------------------------- registries
\* dict order of the registries built by _setup_attacks
\* the registries iterated from the last category to the first
CategoriesReversed == <<"poisoning", "extraction", "evasion">>

Categories == <<"evasion", "extraction", "poisoning">>

whitebox_attacks ==
    [evasion    |-> <<"fgsm", "pgd", "carlini", "deepfool">>,
     extraction |-> <<"copycat", "knockoff">>,
     poisoning  |-> <<"backdoor">>]

blackbox_attacks ==
    [evasion    |-> <<"boundary", "hopskipjump", "zoo">>,
     extraction |-> <<"copycat", "knockoff">>,
     poisoning  |-> <<"backdoor">>]

SUPPORTED_FRAMEWORKS == {"tensorflow", "pytorch", "sklearn"}

\* self.attack_params (lines 65-70); eps = 0.2 as a fraction
attack_params ==
    [eps |-> [num |-> 1, den |-> 5], batch_size |-> 32, nb_epochs |-> 5,
     max_iter |-> 50]

\* sample caps of the extraction and the poisoning procedures
ExtractionCap == 1000
PoisoningCap == 100

\* ------------------------------------------------------------------ state
VARIABLES
    caller,         \* "main": main() drives the scanner; "api": a direct caller
    args,           \* the parsed command line (main)
    data,           \* the test data: x_test, y_test
    pc,             \* where the caller is
    exc,            \* the exception main's except clause caught ("None": none)
    scanner,        \* AdversarialScanner: classifier, framework, is_blackbox
    call,           \* the scanner method being run and its attack_type argument
    spc,            \* where scan_model / run_attacks is
    cat_idx,        \* scan_model: index of attack_type in attacks.keys()
    atk_idx,        \* run_attacks: index of (name, attack_fn) in attacks.items()
    attack,         \* run_attacks: the attack object attack_fn returned
    results,        \* run_attacks: results
    all_results,    \* scan_model: all_results
    test_details,   \* scan_model: test_details
    result,         \* what the scanner method returned (or that it raised)
    written,        \* the reports write_output has written
    exit_code,      \* main's return value (-1: none)
    factory_calls,  \* every attack factory called so far: <<attack_type, name,
                    \* the classifier passed>>
    calls,          \* run_attacks: the calls the current attack's procedure made
    locals,         \* run_attacks: what the current attack's procedure assigned
                    \* to its local variables
    substitutes,    \* every object _create_substitute_model has returned, with
                    \* the attack it was built for and the one it was passed to
    endpoint,       \* setup_endpoint's request_format and response_key
    ppc,            \* where predict_fn is
    posts,          \* the bodies predict_fn has POSTed
    responses,      \* the responses the endpoint has given: status and JSON
    prediction,     \* what the last predict_fn call returned (or that it raised)
    static,         \* static-analysis ModelScanner.scan_file: input, report
    llm             \* LLMSecurityScanner: probes, progress, test_details, report

vars == <<caller, args, data, pc, exc, scanner, call, spc, cat_idx,
          atk_idx, attack, results, all_results, test_details, result, written,
          exit_code, factory_calls, calls, locals, substitutes, endpoint, ppc,
          posts, responses, prediction, static, llm>>

\* the state of the remote adapter's predict_fn
predVars == <<endpoint, ppc, posts, responses, prediction>>

\* the state of the scanners of the other modules
moduleVars == <<static, llm>>

\* the state of main and of its caller
mainVars == <<caller, args, data, pc, exc, scanner, written, exit_code>>

scanVars == <<call, spc, cat_idx, atk_idx, attack, results, all_results,
              test_details, result, factory_calls, calls, locals, substitutes>>

\* ----------------------------------------------------------------- inputs
\* argparse: --file xor --endpoint; --framework, --input-shape and
\* --num-classes are optional; --output is json or text
MainArgs ==
    [target      : {"file"},
     framework   : {"None", "tensorflow"},
     input_shape : {"None"},
     num_classes : {"None"},
     output      : {"json", "text"}]
    \cup
    [target      : {"endpoint"},
     framework   : {"None"},
     input_shape : {"None", "given"},
     num_classes : {"None", "given"},
     output      : {"json", "text"}]

\* the arguments of a direct caller play no part
NoArgs ==
    [target |-> "file", framework |-> "None", input_shape |-> "None",
     num_classes |-> "None", output |-> "json"]

\* The test data file: unreadable, holding 0-d arrays ("unsized": len() raises
\* TypeError), or holding n samples. labels: y_test is not None.
DataInputs ==
    {[kind |-> "unreadable", n |-> 0, labels |-> TRUE],
     [kind |-> "unsized", n |-> 0, labels |-> TRUE]}
    \cup {[kind |-> "sized", n |-> n, labels |-> TRUE] : n \in 0 .. MaxScanN}

ApiDataInputs ==
    {[kind |-> "unsized", n |-> 0, labels |-> TRUE]}
    \cup {[kind |-> "sized", n |-> n, labels |-> l] : n \in 0 .. MaxN, l \in BOOLEAN}

\* frameworks a direct caller passes to load_model
ApiFrameworks == {"tensorflow", "onnx"}

\* y_test as the class of each sample (the one-hot rows of np.eye)
YTest == [i \in 1 .. data.n |-> (i - 1) % NbClasses]

\* rows of predicted classes for m samples
Predictions(m) == [1 .. m -> Classes]

NoResult == [kind |-> "none"]

\* no local of the loop body is assigned
NoLocals == [assigned |-> {}]

NoTestDetails ==
    [evasion_tests |-> 0, extraction_tests |-> 0, poisoning_tests |-> 0,
     completed_tests |-> 0, failed_tests |-> 0]

\* AdversarialScanner.__init__
NewScanner ==
    [classifier       |-> "None",
     framework        |-> "None",
     is_blackbox      |-> FALSE,
     attack_params    |-> attack_params,
     whitebox_attacks |-> whitebox_attacks,
     blackbox_attacks |-> blackbox_attacks]

\* no scanner of the other modules is modelled
NoModules ==
    /\ static = [pc |-> "none"]
    /\ llm = [pc |-> "none"]

\* no predict_fn call is modelled
NoPredict ==
    /\ endpoint = [request_format |-> [given |-> FALSE, items |-> <<>>],
                   response_key   |-> [given |-> FALSE, form |-> "str", parts |-> <<>>]]
    /\ ppc = "idle"
    /\ posts = <<>>
    /\ responses = <<>>
    /\ prediction = [kind |-> "none"]

Init ==
    /\ NoPredict
    /\ NoModules
    /\ caller \in {"main", "api"}
    /\ IF caller = "main"
       THEN args \in MainArgs /\ data \in DataInputs /\ pc = "main_start"
       ELSE args = NoArgs /\ data \in ApiDataInputs /\ pc = "api_idle"
    /\ exc = "None"
    /\ scanner = NewScanner
    /\ call = [op |-> "none", attack_type |-> "none"]
    /\ spc = "idle"
    /\ cat_idx = 0
    /\ atk_idx = 0
    /\ attack = "None"
    /\ results = <<>>
    /\ all_results = <<>>
    /\ test_details = NoTestDetails
    /\ result = NoResult
    /\ written = <<>>
    /\ exit_code = -1
    /\ factory_calls = <<>>
    /\ calls = <<>>
    /\ locals = NoLocals
    /\ substitutes = <<>>

\* ---------------------------------------------------------------- scanner
\* load_model(file_path, framework); loads: whether the framework's loader
\* and the classifier constructor return (TRUE) or raise (FALSE).
\* Returns the scanner afterwards and the exception raised ("None": none).
load_model(s, framework, loads) ==
    IF framework \notin SUPPORTED_FRAMEWORKS
    THEN [scanner |-> s, raised |-> "ValueError: Unsupported framework"]
    ELSE LET t == [s EXCEPT !.framework = framework, !.is_blackbox = FALSE] IN
         IF loads
         THEN [scanner |-> [t EXCEPT !.classifier = "inprocess"], raised |-> "None"]
         ELSE [scanner |-> t, raised |-> "RuntimeError: Failed to load model"]

\* setup_endpoint(endpoint_url, input_shape, nb_classes, ...); builds: whether
\* the BlackBoxClassifier constructor returns or raises
setup_endpoint(s, builds) ==
    IF builds
    THEN [scanner |-> [s EXCEPT !.classifier = "remote", !.is_blackbox = TRUE],
          raised  |-> "None"]
    ELSE [scanner |-> s, raised |-> "RuntimeError: Failed to setup endpoint classifier"]

\* hasattr(self.classifier, 'model_file'): set by load_model on the classifier
\* it built
HasModelFile(clf) == clf = "inprocess"

\* hasattr(self.classifier, 'endpoint_url'): set by setup_endpoint
HasEndpointUrl(clf) == clf = "remote"

_get_applicable_attacks(s) ==
    IF s.is_blackbox THEN s.blackbox_attacks ELSE s.whitebox_attacks

\* the attack_type run_attacks is running
AttackType ==
    IF call.op = "scan_model" THEN Categories[cat_idx] ELSE call.attack_type

\* attacks = self._get_applicable_attacks().get(attack_type, {})
Attacks == _get_applicable_attacks(scanner)[AttackType]

\* ---------------------------------------------------------------- outcomes
\* CompletedOutcome with the threshold turned round for extraction, whose
\* rate is an agreement and not a disagreement
CompletedOutcomeByPolarity(name, attack_type, success_rate) ==
    LET low == IF attack_type = "extraction"
               THEN ~LessThanHalf(success_rate)
               ELSE LessThanHalf(success_rate) IN
    [type         |-> IF low THEN "warning" ELSE "error",
     name         |-> name,
     description  |-> <<"Model vulnerable to attack", "success rate">>,
     severity     |-> IF low THEN "MEDIUM" ELSE "HIGH",
     attack_type  |-> attack_type,
     success_rate |-> success_rate]

\* the dict appended when the attack completed (lines 400-407)
CompletedOutcome(name, attack_type, success_rate) ==
    [type         |-> IF LessThanHalf(success_rate) THEN "warning" ELSE "error",
     name         |-> name,
     description  |-> <<"Model vulnerable to attack", "success rate">>,
     severity     |-> IF LessThanHalf(success_rate) THEN "MEDIUM" ELSE "HIGH",
     attack_type  |-> attack_type,
     success_rate |-> success_rate]

\* the dict appended by the except clause (lines 408-417)
FailedOutcome(name, attack_type, reason) ==
    [type         |-> "error",
     name         |-> name,
     description  |-> <<"Attack failed", reason>>,
     severity     |-> "ERROR",
     attack_type  |-> attack_type,
     success_rate |-> Zero]

\* A call into the external code, the samples x_test[from:upto] handed to it,
\* and whether it raised
Call(fn, upto) == [fn |-> fn, from |-> 0, upto |-> upto, raised |-> FALSE]

\* lines 339-340: the calls of the evasion procedure on n samples, in order
EvasionSteps(n) ==
    <<Call("attack.generate", n), Call("classifier.predict", n)>>

\* ExtractionSteps without the cap: every call is handed the whole test set
ExtractionStepsWhole(n) ==
    <<Call("_create_substitute_model", 0), Call("attack.extract", n),
      Call("classifier.predict", n), Call("extracted_model.predict", n)>>

\* lines 347-360: the calls of the extraction procedure on n samples;
\* x_test_subset = x_test[:min(1000, len(x_test))]
ExtractionSteps(n) ==
    LET k == Min(ExtractionCap, n) IN
    <<Call("_create_substitute_model", 0), Call("attack.extract", k),
      Call("classifier.predict", k), Call("extracted_model.predict", k)>>

\* PoisoningSteps with the clean predictions taken after the poisoned ones
PoisoningStepsCleanLast(n) ==
    LET k == Min(PoisoningCap, n) IN
    <<Call("attack.poison", k), Call("classifier.predict", k),
      Call("classifier.predict", k)>>

\* lines 371-382: the calls of the backdoor procedure on n samples;
\* x_subset = x_test[:min(100, len(x_test))]
PoisoningSteps(n) ==
    LET k == Min(PoisoningCap, n) IN
    <<Call("classifier.predict", k), Call("attack.poison", k),
      Call("classifier.predict", k)>>

Steps(attack_type, n) ==
    IF attack_type = "evasion" THEN EvasionSteps(n)
    ELSE IF attack_type = "extraction" THEN ExtractionSteps(n)
    ELSE PoisoningSteps(n)

\* the calls made when the call numbered raises is the one that raises
\* (0: none raises)
CallsMade(steps, raises) ==
    IF raises = 0 THEN steps
    ELSE [i \in 1 .. raises |-> [steps[i] EXCEPT !.raised = (i = raises)]]

\* What the external code does during one attack procedure:
\*   raises  the number of the call of Steps that raises (0: none does)
\*   ref     classes predicted for the reference pass (extraction: the
\*           classifier; poisoning: the clean inputs)
\*   preds   classes predicted for the attacked pass (evasion: the adversarial
\*           inputs; extraction: the stolen model; poisoning: the poisoned inputs)
\* A call that raises returns no prediction, and evasion has no reference
\* pass: the rows are then left at class 0.
LibraryOver(attack_type, m, rows) ==
    LET none == [i \in 1 .. m |-> 0] IN
    {[raises |-> 0, ref |-> r, preds |-> q] :
        r \in (IF attack_type = "evasion" THEN {none} ELSE rows),
        q \in rows}
    \cup {[raises |-> k, ref |-> none, preds |-> none] :
             k \in 1 .. Len(Steps(attack_type, m))}

\* every row of predictions is possible
Library(attack_type, m) == LibraryOver(attack_type, m, Predictions(m))

Raised(reason) == [raised |-> TRUE, reason |-> reason, success_rate |-> Zero]

Computed(rate) == [raised |-> FALSE, reason |-> "None", success_rate |-> rate]

\* Evasion without the test of lines 337-338: the labels are not asked for
EvasionUnlabelled(lib) ==
    IF lib.raises # 0 THEN Raised("library")
    ELSE IF data.kind = "unsized" THEN Raised("AxisError")
    ELSE Computed(OneMinus(Mean(ClassesEqual(lib.preds, YTest))))

\* lines 336-343
Evasion(lib) ==
    IF ~data.labels THEN Raised("y_test required for evasion attacks")
    ELSE IF lib.raises # 0 THEN Raised("library")
    ELSE IF data.kind = "unsized" THEN Raised("AxisError")
    ELSE Computed(OneMinus(Mean(ClassesEqual(lib.preds, YTest))))

EvasionCalls(lib) ==
    IF ~data.labels THEN <<>> ELSE CallsMade(EvasionSteps(data.n), lib.raises)

\* lines 345-363. _create_substitute_model (lines 194-223) returns a classifier
\* or raises what tf.keras raises; it has no path that returns None, so the
\* ValueError of line 349 is never raised. An exception of the builder is
\* caught like every other one: the description is its str(e).
Extraction(lib) ==
    IF lib.raises = 1 THEN Raised("library")
    ELSE IF data.kind = "unsized" THEN Raised("TypeError: len() of unsized object")
    ELSE IF lib.raises # 0 THEN Raised("library")
    ELSE Computed(Mean(ClassesEqual(Take(lib.ref, ExtractionCap),
                                    Take(lib.preds, ExtractionCap))))

ExtractionCalls(lib) ==
    IF lib.raises # 1 /\ data.kind = "unsized"
    THEN SubSeq(ExtractionSteps(data.n), 1, 1)
    ELSE CallsMade(ExtractionSteps(data.n), lib.raises)

\* lines 365-388, name == 'backdoor', the one poisoning attack registered
Poisoning(lib) ==
    IF ~data.labels THEN Raised("y_test required for poisoning attacks")
    ELSE IF data.kind = "unsized" THEN Raised("TypeError: len() of unsized object")
    ELSE IF lib.raises # 0 THEN Raised("library")
    ELSE Computed(Mean(ClassesDiffer(Take(lib.preds, PoisoningCap),
                                     Take(lib.ref, PoisoningCap))))

PoisoningCalls(lib) ==
    IF ~data.labels \/ data.kind = "unsized" THEN <<>>
    ELSE CallsMade(PoisoningSteps(data.n), lib.raises)

Procedure(attack_type, lib) ==
    IF attack_type = "evasion" THEN Evasion(lib)
    ELSE IF attack_type = "extraction" THEN Extraction(lib)
    ELSE Poisoning(lib)

\* the calls the procedure of attack_type made into the external code
Calls(attack_type, lib) ==
    IF attack_type = "evasion" THEN EvasionCalls(lib)
    ELSE IF attack_type = "extraction" THEN ExtractionCalls(lib)
    ELSE PoisoningCalls(lib)

\* the number of samples the procedure of attack_type works on
Samples(attack_type) ==
    IF attack_type = "evasion" THEN data.n
    ELSE IF attack_type = "extraction" THEN Min(ExtractionCap, data.n)
    ELSE Min(PoisoningCap, data.n)

\* the outcome of one pass of the loop body after the factory returned
Outcome(name, attack_type, lib) ==
    LET p == Procedure(attack_type, lib) IN
    IF p.raised THEN FailedOutcome(name, attack_type, p.reason)
    ELSE CompletedOutcome(name, attack_type, p.success_rate)

\* ----------------------------------------------------------------- reports
RECURSIVE CountErrors(_)
\* len([r for r in all_results if r['type'] == 'error'])
CountErrors(rs) ==
    IF rs = <<>> THEN 0
    ELSE (IF Head(rs).type = "error" THEN 1 ELSE 0) + CountErrors(Tail(rs))

\* Status that counts only the vulnerabilities found (severity HIGH)
StatusBySeverity(rs) ==
    IF \E i \in 1 .. Len(rs) : rs[i].severity = "HIGH" THEN "unsafe" ELSE "safe"

\* "unsafe" if any(r["type"] == "error" for r in all_results) else "safe"
Status(rs) ==
    IF \E i \in 1 .. Len(rs) : rs[i].type = "error" THEN "unsafe" ELSE "safe"

\* test_details as first built (lines 429-435)
InitialTestDetails(s) ==
    LET attacks == _get_applicable_attacks(s) IN
    [evasion_tests    |-> Len(attacks.evasion),
     extraction_tests |-> Len(attacks.extraction),
     poisoning_tests  |-> IF ~s.is_blackbox THEN Len(attacks.poisoning) ELSE 0,
     completed_tests  |-> 0,
     failed_tests     |-> 0]

\* test_details after the update of lines 444-445
FinalTestDetails(td, rs) ==
    [td EXCEPT !.completed_tests = Len(rs), !.failed_tests = CountErrors(rs)]

\* the dict returned by lines 449-463
ScanReport(s, td, rs) ==
    [module   |-> "AdversarialTesting",
     file     |-> IF HasModelFile(s.classifier) THEN "model_file" ELSE "None",
     endpoint |-> IF HasEndpointUrl(s.classifier) THEN "endpoint_url" ELSE "None",
     status   |-> Status(rs),
     issues   |-> rs,
     metadata |-> [scan_time    |-> "elapsed",
                   target       |-> IF ~s.is_blackbox THEN "file" ELSE "endpoint",
                   framework    |-> s.framework,
                   test_samples |-> data.n,
                   test_details |-> FinalTestDetails(td, rs),
                   summary      |-> <<"Found issues in tests", Len(rs), Len(rs)>>]]

\* the dict returned by the except clause of scan_model (lines 465-490)
ScanErrorReport(s, e) ==
    [module   |-> "AdversarialTesting",
     file     |-> "None",
     endpoint |-> "None",
     status   |-> "error",
     issues   |-> << [type        |-> "error",
                      description |-> <<"str(e)", e>>,
                      severity    |-> "CRITICAL",
                      attack_type |-> "unknown"] >>,
     metadata |-> [scan_time    |-> "N/A",
                   target       |-> "unknown",
                   framework    |-> s.framework,
                   test_details |-> [NoTestDetails EXCEPT !.failed_tests = 1],
                   summary      |-> <<"Scan failed", e>>]]

\* error_result of main's except clause (lines 227-250)
MainErrorResult(a, e) ==
    [module   |-> "AdversarialTesting",
     file     |-> IF a.target = "file" THEN "args.file" ELSE "None",
     endpoint |-> IF a.target = "endpoint" THEN "args.endpoint" ELSE "None",
     status   |-> "error",
     issues   |-> << [type        |-> "error",
                      description |-> <<"str(e)", e>>,
                      severity    |-> "CRITICAL",
                      attack_type |-> "setup"] >>,
     metadata |-> [scan_time    |-> "N/A",
                   target       |-> IF a.target = "file" THEN "file" ELSE "endpoint",
                   test_details |-> [NoTestDetails EXCEPT !.failed_tests = 1],
                   summary      |-> <<"Fatal error", e>>]]

\* ------------------------------------------------------------- scan_model
\* scan_model lines 422-438: the registries are looked up and the counts taken
ScanBegin ==
    /\ spc = "scan_begin"
    /\ test_details' = InitialTestDetails(scanner)
    /\ all_results' = <<>>
    /\ cat_idx' = 1
    /\ spc' = "run_enter"
    /\ UNCHANGED <<caller, args, data, pc, exc, scanner, call, atk_idx,
                   attack, results, result, written, exit_code, factory_calls, calls>>
    /\ UNCHANGED <<predVars, moduleVars>>
    /\ UNCHANGED <<locals, substitutes>>

\* RunAttacksEnter without the test of lines 325-326: the loop is entered
\* whether or not a classifier is installed
RunAttacksEnterUnchecked ==
    /\ spc = "run_enter"
    /\ spc' = "attack_loop"
    /\ UNCHANGED <<pc, exc, result>>
    /\ results' = <<>>
    /\ atk_idx' = 1
    /\ UNCHANGED <<caller, args, data, scanner, call, cat_idx, attack,
                   all_results, test_details, written, exit_code, factory_calls, calls>>
    /\ UNCHANGED <<predVars, moduleVars>>
    /\ UNCHANGED <<locals, substitutes>>

\* run_attacks lines 325-329. Without a classifier it raises ValueError: into
\* scan_model's except clause, or out to the direct caller.
RunAttacksEnter ==
    /\ spc = "run_enter"
    /\ IF scanner.classifier = "None"
       THEN IF call.op = "scan_model"
            THEN /\ spc' = "scan_except"
                 /\ exc' = "ValueError: Classifier not initialized"
                 /\ UNCHANGED <<pc, result>>
            ELSE /\ spc' = "idle"
                 /\ result' = [kind |-> "raised",
                               error |-> "ValueError: Classifier not initialized"]
                 /\ pc' = "done"
                 /\ exc' = exc
       ELSE /\ spc' = "attack_loop"
            /\ UNCHANGED <<pc, exc, result>>
    /\ results' = <<>>
    /\ atk_idx' = 1
    /\ UNCHANGED <<caller, args, data, scanner, call, cat_idx, attack,
                   all_results, test_details, written, exit_code, factory_calls, calls>>
    /\ UNCHANGED <<predVars, moduleVars>>
    /\ UNCHANGED <<locals, substitutes>>

\* AttackCreate without the failure boundary recording the attack: a factory
\* that raises is skipped
AttackCreateSkipping ==
    /\ spc = "attack_loop"
    /\ atk_idx <= Len(Attacks)
    /\ factory_calls' = Append(factory_calls,
                            <<AttackType, Attacks[atk_idx], scanner.classifier>>)
    /\ calls' = <<>>
    /\ \E constructs \in BOOLEAN :
          IF constructs
          THEN /\ attack' = Attacks[atk_idx]
               /\ spc' = "attack_run"
               /\ UNCHANGED <<results, atk_idx>>
          ELSE /\ results' = results
               /\ atk_idx' = atk_idx + 1
               /\ UNCHANGED <<attack, spc>>
    /\ UNCHANGED <<caller, args, data, pc, exc, scanner, call, cat_idx,
                   all_results, test_details, result, written, exit_code>>
    /\ UNCHANGED <<predVars, moduleVars>>
    /\ locals' = NoLocals
    /\ UNCHANGED substitutes

\* line 334, attack = attack_fn(self.classifier): the factory returns the
\* attack, or raises into the except clause of lines 408-417
AttackCreate ==
    /\ spc = "attack_loop"
    /\ atk_idx <= Len(Attacks)
    /\ factory_calls' = Append(factory_calls,
                            <<AttackType, Attacks[atk_idx], scanner.classifier>>)
    /\ calls' = <<>>
    /\ \E constructs \in BOOLEAN :
          IF constructs
          THEN /\ attack' = Attacks[atk_idx]
               /\ spc' = "attack_run"
               /\ UNCHANGED <<results, atk_idx>>
          ELSE /\ results' = Append(results,
                        FailedOutcome(Attacks[atk_idx], AttackType, "library"))
               /\ atk_idx' = atk_idx + 1
               /\ UNCHANGED <<attack, spc>>
    /\ UNCHANGED <<caller, args, data, pc, exc, scanner, call, cat_idx,
                   all_results, test_details, result, written, exit_code>>
    /\ UNCHANGED <<predVars, moduleVars>>
    /\ locals' = NoLocals
    /\ UNCHANGED substitutes

\* RunProcedure in which an extraction attack that completed installs the
\* model it extracted as the scanner's classifier
RunProcedureInstalling(lib) ==
    /\ results' = Append(results, Outcome(attack, AttackType, lib))
    /\ calls' = Calls(AttackType, lib)
    /\ atk_idx' = atk_idx + 1
    /\ attack' = "None"
    /\ spc' = "attack_loop"
    /\ scanner' = IF AttackType = "extraction" /\ ~Procedure(AttackType, lib).raised
                  THEN [scanner EXCEPT !.classifier = "extracted_model"]
                  ELSE scanner
    /\ UNCHANGED <<caller, args, data, pc, exc, call, cat_idx,
                   all_results, test_details, result, written, exit_code,
                   factory_calls>>
    /\ UNCHANGED <<predVars, moduleVars>>

\* lines 336-417 for what the external code does (lib): the procedure of the
\* category runs and the outcome, computed or failed, is appended
RunProcedure(lib) ==
    /\ results' = Append(results, Outcome(attack, AttackType, lib))
    /\ calls' = Calls(AttackType, lib)
    /\ atk_idx' = atk_idx + 1
    /\ attack' = "None"
    /\ spc' = "attack_loop"
    /\ UNCHANGED <<caller, args, data, pc, exc, scanner, call, cat_idx,
                   all_results, test_details, result, written, exit_code,
                   factory_calls>>
    /\ UNCHANGED <<predVars, moduleVars>>

\* the loop body after the factory returned, for whatever the external code
\* does; the locals are not followed
AttackRun ==
    /\ spc = "attack_run"
    /\ \E lib \in Library(AttackType, Samples(AttackType)) : RunProcedure(lib)
    /\ UNCHANGED <<locals, substitutes>>

\* line 418, return results: to scan_model's loop (lines 439-441), which goes
\* on to the next attack_type, or to the direct caller
RunAttacksReturn ==
    /\ spc = "attack_loop"
    /\ atk_idx > Len(Attacks)
    /\ IF call.op = "scan_model"
       THEN /\ all_results' = all_results \o results
            /\ cat_idx' = cat_idx + 1
            /\ spc' = IF cat_idx < Len(Categories) THEN "run_enter" ELSE "scan_finish"
            /\ UNCHANGED <<pc, result>>
       ELSE /\ result' = [kind |-> "outcomes", outcomes |-> results]
            /\ spc' = "idle"
            /\ pc' = "done"
            /\ UNCHANGED <<all_results, cat_idx>>
    /\ calls' = <<>>
    /\ UNCHANGED <<caller, args, data, exc, scanner, call, atk_idx,
                   attack, results, test_details, written, exit_code, factory_calls>>
    /\ UNCHANGED <<predVars, moduleVars>>
    /\ locals' = NoLocals
    /\ UNCHANGED substitutes

\* lines 443-463: the report is built and returned; len(x_test) of a 0-d array
\* raises TypeError into the except clause
ScanFinish ==
    /\ spc = "scan_finish"
    /\ IF data.kind = "unsized"
       THEN /\ spc' = "scan_except"
            /\ exc' = "TypeError: len() of unsized object"
            /\ UNCHANGED <<pc, result, test_details>>
       ELSE /\ spc' = "idle"
            /\ test_details' = FinalTestDetails(test_details, all_results)
            /\ result' = [kind |-> "report",
                          report |-> ScanReport(scanner, test_details, all_results)]
            /\ pc' = IF caller = "main" THEN "main_write" ELSE "done"
            /\ exc' = exc
    /\ UNCHANGED <<caller, args, data, scanner, call, cat_idx, atk_idx,
                   attack, results, all_results, written, exit_code, factory_calls, calls>>
    /\ UNCHANGED <<predVars, moduleVars>>
    /\ UNCHANGED <<locals, substitutes>>

\* lines 465-490: the whole-scan error report is returned
ScanExcept ==
    /\ spc = "scan_except"
    /\ spc' = "idle"
    /\ result' = [kind |-> "report", report |-> ScanErrorReport(scanner, exc)]
    /\ exc' = "None"
    /\ pc' = IF caller = "main" THEN "main_write" ELSE "done"
    /\ UNCHANGED <<caller, args, data, scanner, call, cat_idx, atk_idx,
                   attack, results, all_results, test_details, written, exit_code,
                   factory_calls, calls>>
    /\ UNCHANGED <<predVars, moduleVars>>
    /\ UNCHANGED <<locals, substitutes>>

\* ------------------------------------------------------------------- main
\* format_text_output (main.py lines 95-125): the first key it reads that the
\* report does not hold raises KeyError ("None": it returns the text)
format_text_output(r) ==
    IF "framework" \notin DOMAIN r.metadata THEN "KeyError: 'framework'"
    ELSE IF "test_samples" \notin DOMAIN r.metadata THEN "KeyError: 'test_samples'"
    ELSE IF {"scan_time", "summary"} \ DOMAIN r.metadata # {} THEN "KeyError"
    ELSE IF \E i \in 1 .. Len(r.issues) :
               {"type", "description", "severity", "attack_type"}
                   \ DOMAIN r.issues[i] # {}
         THEN "KeyError"
    ELSE "None"

\* write_output (lines 127-138): json.dumps renders every report
write_output(r, output_format) ==
    IF output_format = "json" THEN "None" ELSE format_text_output(r)

\* ExitCode without the test for "error"
ExitCodeNoError(status) == IF status = "unsafe" THEN 1 ELSE 0

\* lines 219-223
ExitCode(status) ==
    IF status = "error" THEN 2 ELSE IF status = "unsafe" THEN 1 ELSE 0

\* line 185, load_test_data: np.load raises on an unreadable file
MainLoadTestData ==
    /\ pc = "main_start"
    /\ IF data.kind = "unreadable"
       THEN pc' = "main_except" /\ exc' = "RuntimeError: Failed to load test data"
       ELSE pc' = "main_setup" /\ exc' = exc
    /\ UNCHANGED <<caller, args, data, scanner, scanVars, written,
                   exit_code>>
    /\ UNCHANGED <<predVars, moduleVars>>

\* lines 188-192: --file
MainLoadModel ==
    /\ pc = "main_setup"
    /\ args.target = "file"
    /\ IF args.framework = "None"
       THEN /\ pc' = "main_except"
            /\ exc' = "ValueError: --framework is required when scanning a file"
            /\ scanner' = scanner
       ELSE \E loads \in BOOLEAN :
               LET r == load_model(scanner, args.framework, loads) IN
               /\ scanner' = r.scanner
               /\ exc' = r.raised
               /\ pc' = IF r.raised = "None" THEN "main_scan" ELSE "main_except"
    /\ UNCHANGED <<caller, args, data, scanVars, written, exit_code>>
    /\ UNCHANGED <<predVars, moduleVars>>

\* lines 193-210: --endpoint
MainSetupEndpoint ==
    /\ pc = "main_setup"
    /\ args.target = "endpoint"
    /\ IF args.input_shape = "None"
       THEN /\ pc' = "main_except"
            /\ exc' = "ValueError: --input-shape is required for endpoint testing"
            /\ scanner' = scanner
       ELSE IF args.num_classes = "None"
       THEN /\ pc' = "main_except"
            /\ exc' = "ValueError: --num-classes is required for endpoint testing"
            /\ scanner' = scanner
       ELSE \E builds \in BOOLEAN :
               LET r == setup_endpoint(scanner, builds) IN
               /\ scanner' = r.scanner
               /\ exc' = r.raised
               /\ pc' = IF r.raised = "None" THEN "main_scan" ELSE "main_except"
    /\ UNCHANGED <<caller, args, data, scanVars, written, exit_code>>
    /\ UNCHANGED <<predVars, moduleVars>>

\* line 213: result = scanner.scan_model(x_test, y_test)
MainScanModel ==
    /\ pc = "main_scan"
    /\ pc' = "main_scanning"
    /\ call' = [op |-> "scan_model", attack_type |-> "none"]
    /\ spc' = "scan_begin"
    /\ UNCHANGED <<caller, args, data, exc, scanner, cat_idx, atk_idx,
                   attack, results, all_results, test_details, result, written,
                   exit_code, factory_calls, calls>>
    /\ UNCHANGED <<predVars, moduleVars>>
    /\ UNCHANGED <<locals, substitutes>>

\* lines 216-223: the report is written and the exit code returned; an
\* exception of write_output goes to the except clause
MainWriteOutput ==
    /\ pc = "main_write"
    /\ LET e == write_output(result.report, args.output) IN
       IF e = "None"
       THEN /\ written' = Append(written, result.report)
            /\ exit_code' = ExitCode(result.report.status)
            /\ pc' = "done"
            /\ exc' = exc
       ELSE /\ pc' = "main_except"
            /\ exc' = e
            /\ UNCHANGED <<written, exit_code>>
    /\ UNCHANGED <<caller, args, data, scanner, scanVars>>
    /\ UNCHANGED <<predVars, moduleVars>>

\* lines 225-252: the fatal error report is written and 2 returned; an
\* exception of write_output here leaves main ("raised")
MainExcept ==
    /\ pc = "main_except"
    /\ LET error_result == MainErrorResult(args, exc)
           e == write_output(error_result, args.output) IN
       IF e = "None"
       THEN /\ written' = Append(written, error_result)
            /\ exit_code' = 2
            /\ pc' = "done"
            /\ exc' = exc
       ELSE /\ pc' = "raised"
            /\ exc' = e
            /\ UNCHANGED <<written, exit_code>>
    /\ UNCHANGED <<caller, args, data, scanner, scanVars>>
    /\ UNCHANGED <<predVars, moduleVars>>

\* ---------------------------------------------------------- direct callers
\* scanner.load_model(file_path, framework) called directly
ApiLoadModel ==
    /\ pc = "api_idle"
    /\ \E framework \in ApiFrameworks, loads \in BOOLEAN :
          scanner' = load_model(scanner, framework, loads).scanner
    /\ UNCHANGED <<caller, args, data, pc, exc, scanVars, written, exit_code>>
    /\ UNCHANGED <<predVars, moduleVars>>

\* scanner.setup_endpoint(...) called directly
ApiSetupEndpoint ==
    /\ pc = "api_idle"
    /\ \E builds \in BOOLEAN : scanner' = setup_endpoint(scanner, builds).scanner
    /\ UNCHANGED <<caller, args, data, pc, exc, scanVars, written, exit_code>>
    /\ UNCHANGED <<predVars, moduleVars>>

\* scanner.scan_model(x_test, y_test) called directly
ApiScanModel ==
    /\ pc = "api_idle"
    /\ data.labels
    /\ data.n <= MaxScanN
    /\ pc' = "api_call"
    /\ call' = [op |-> "scan_model", attack_type |-> "none"]
    /\ spc' = "scan_begin"
    /\ UNCHANGED <<caller, args, data, exc, scanner, cat_idx, atk_idx,
                   attack, results, all_results, test_details, result, written,
                   exit_code, factory_calls, calls>>
    /\ UNCHANGED <<predVars, moduleVars>>
    /\ UNCHANGED <<locals, substitutes>>

\* scanner.run_attacks(attack_type, x_test, y_test) called directly
ApiRunAttacks ==
    /\ pc = "api_idle"
    /\ pc' = "api_call"
    /\ \E i \in 1 .. Len(Categories) :
          call' = [op |-> "run_attacks", attack_type |-> Categories[i]]
    /\ spc' = "run_enter"
    /\ UNCHANGED <<caller, args, data, exc, scanner, cat_idx, atk_idx,
                   attack, results, all_results, test_details, result, written,
                   exit_code, factory_calls, calls>>
    /\ UNCHANGED <<predVars, moduleVars>>
    /\ UNCHANGED <<locals, substitutes>>

Next ==
    \/ MainLoadTestData
    \/ MainLoadModel
    \/ MainSetupEndpoint
    \/ MainScanModel
    \/ MainWriteOutput
    \/ MainExcept
    \/ ApiLoadModel
    \/ ApiSetupEndpoint
    \/ ApiScanModel
    \/ ApiRunAttacks
    \/ ScanBegin
    \/ RunAttacksEnter
    \/ AttackCreate
    \/ AttackRun
    \/ RunAttacksReturn
    \/ ScanFinish
    \/ ScanExcept

Spec == Init /\ [][Next]_vars

\* ------------------------------------------- setup_endpoint: predict_fn
\* most predict_fn calls made on one adapter
MaxPredictCalls == 2

\* A Python string is a row of parts: plain text, the placeholder "<input>",
\* or, after replace(), str(x.tolist()) of a batch x.
Text == [kind |-> "text", x |-> <<>>]

Placeholder == [kind |-> "<input>", x |-> <<>>]

BatchText(x) == [kind |-> "str(x.tolist())", x |-> x]

\* the values a request template holds: strings, the number 100, and a
\* nested dict {"data": <string>} (parts: the parts of that string)
TemplateValues ==
    {[t |-> "str",  parts |-> <<Placeholder>>],
     [t |-> "str",  parts |-> <<Text>>],
     [t |-> "int",  parts |-> <<>>],
     [t |-> "dict", parts |-> <<Placeholder>>]}

TemplateKeys == {"prompt", "max_tokens"}

\* request_format: None, or a dict with at least one key
RequestFormats ==
    {[given |-> FALSE, items |-> <<>>]}
    \cup {[given |-> TRUE, items |-> f] :
            f \in UNION {[K -> TemplateValues] : K \in (SUBSET TemplateKeys) \ {{}}}}

\* --response-key values: the keys between the dots
KeyStrings == {<<"predictions">>, <<"data", "predictions">>}

\* main.py lines 167-171: a key_str with a dot in it is split into a list,
\* one without comes back as the str it is
parse_response_key(key_str) ==
    IF Len(key_str) >= 2
    THEN [given |-> TRUE, form |-> "list", parts |-> key_str]
    ELSE [given |-> TRUE, form |-> "str", parts |-> key_str]

\* response_key as setup_endpoint receives it: None; a str passed by a direct
\* caller (parts: what split('.') gives); what main passes (line 208)
ResponseKeys ==
    {[given |-> FALSE, form |-> "str", parts |-> <<>>]}
    \cup {[given |-> TRUE, form |-> "str", parts |-> k] : k \in KeyStrings}
    \cup {parse_response_key(k) : k \in KeyStrings}

\* input batches x (x.tolist())
Batches == {<<1>>, <<1, 2>>}

\* JSON bodies the endpoint answers with
Responses ==
    {[t |-> "array", v |-> <<7>>, d |-> <<>>],
     [t |-> "dict", v |-> <<>>,
      d |-> [predictions |-> [t |-> "array", v |-> <<7>>, d |-> <<>>]]],
     [t |-> "dict", v |-> <<>>,
      d |-> [data |-> [t |-> "dict", v |-> <<>>,
                       d |-> [predictions |-> [t |-> "array", v |-> <<8>>, d |-> <<>>]]]]]}

\* "<input>" in str(request_format): the placeholder shows in the text of the
\* dict wherever it stands, nested values included
InStr(request_format) ==
    \E k \in DOMAIN request_format.items :
        \E i \in 1 .. Len(request_format.items[k].parts) :
            request_format.items[k].parts[i] = Placeholder

\* v.replace("<input>", str(x.tolist()))
Replace(v, x) ==
    [v EXCEPT !.parts = [i \in 1 .. Len(v.parts) |->
                           IF v.parts[i] = Placeholder THEN BatchText(x)
                           ELSE v.parts[i]]]

\* {"instances": x.tolist()}
DefaultBody(x) == [instances |-> [t |-> "list", parts |-> <<BatchText(x)>>]]

\* lines 273-279: the body predict_fn sends for the batch x
RequestBody(request_format, x) ==
    IF request_format.given /\ InStr(request_format)
    THEN [k \in DOMAIN request_format.items |->
             IF request_format.items[k].t = "str"
             THEN Replace(request_format.items[k], x)
             ELSE request_format.items[k]]
    ELSE DefaultBody(x)

RECURSIVE Walk(_, _)
\* lines 290-291: result = result[key] for each key
Walk(json, keys) ==
    IF keys = <<>> THEN [kind |-> "returned", value |-> json]
    ELSE IF json.t = "dict" /\ Head(keys) \in DOMAIN json.d
    THEN Walk(json.d[Head(keys)], Tail(keys))
    ELSE [kind |-> "raised", value |-> json]

\* lines 286-292: what predict_fn does with the response
Answer(response_key, status, json) ==
    IF status >= 400 THEN [kind |-> "raised", value |-> json]
    ELSE IF ~response_key.given THEN [kind |-> "returned", value |-> json]
    ELSE IF response_key.form # "str" THEN [kind |-> "raised", value |-> json]
    ELSE Walk(json, response_key.parts)

\* setup_endpoint has built the adapter with some request_format and
\* response_key
PredictInit ==
    /\ NoModules
    /\ endpoint \in [request_format : RequestFormats, response_key : ResponseKeys]
    /\ ppc = "ready"
    /\ posts = <<>>
    /\ responses = <<>>
    /\ prediction = [kind |-> "none"]
    /\ caller = "api"
    /\ args = NoArgs
    /\ data = [kind |-> "sized", n |-> 0, labels |-> TRUE]
    /\ pc = "predict"
    /\ exc = "None"
    /\ scanner = setup_endpoint(NewScanner, TRUE).scanner
    /\ call = [op |-> "none", attack_type |-> "none"]
    /\ spc = "idle"
    /\ cat_idx = 0
    /\ atk_idx = 0
    /\ attack = "None"
    /\ results = <<>>
    /\ all_results = <<>>
    /\ test_details = NoTestDetails
    /\ result = NoResult
    /\ written = <<>>
    /\ exit_code = -1
    /\ factory_calls = <<>>
    /\ calls = <<>>
    /\ locals = NoLocals
    /\ substitutes = <<>>

\* lines 273-285: predict_fn(x) builds the body and POSTs it
PredictPost ==
    /\ ppc = "ready"
    /\ Len(posts) < MaxPredictCalls
    /\ \E x \in Batches :
          posts' = Append(posts, [x |-> x, json |-> RequestBody(endpoint.request_format, x)])
    /\ ppc' = "posted"
    /\ prediction' = [kind |-> "none"]
    /\ UNCHANGED <<endpoint, responses, mainVars, scanVars, moduleVars>>

\* lines 286-292: the endpoint answers; predict_fn raises or returns
PredictAnswer ==
    /\ ppc = "posted"
    /\ \E status \in {200, 500}, json \in Responses :
          /\ responses' = Append(responses, [status |-> status, json |-> json])
          /\ prediction' = Answer(endpoint.response_key, status, json)
    /\ ppc' = "ready"
    /\ UNCHANGED <<endpoint, posts, mainVars, scanVars, moduleVars>>

PredictNext == PredictPost \/ PredictAnswer

SpecPredict == PredictInit /\ [][PredictNext]_vars

\* ------------------------------------------- run_attacks('extraction', ...)
\* on test sets around and above the cap; the largest one
MaxSamples == 5000

\* len(x_test)
SampleCounts ==
    {0, 1, ExtractionCap - 1, ExtractionCap, ExtractionCap + 1, MaxSamples}

\* how many of the k compared samples the stolen model predicts as the
\* classifier does: none, half of them, all
Agreements(k) == {0, k \div 2, k}

\* run_attacks('extraction', x_test) is called on a scanner that load_model or
\* setup_endpoint has set up
ExtractionInit ==
    /\ NoPredict
    /\ NoModules
    /\ caller = "api"
    /\ args = NoArgs
    /\ data \in {[kind |-> "sized", n |-> n, labels |-> l] :
                    n \in SampleCounts, l \in BOOLEAN}
    /\ pc = "api_call"
    /\ exc = "None"
    /\ scanner \in {load_model(NewScanner, "tensorflow", TRUE).scanner,
                    setup_endpoint(NewScanner, TRUE).scanner}
    /\ call = [op |-> "run_attacks", attack_type |-> "extraction"]
    /\ spc = "run_enter"
    /\ cat_idx = 0
    /\ atk_idx = 0
    /\ attack = "None"
    /\ results = <<>>
    /\ all_results = <<>>
    /\ test_details = NoTestDetails
    /\ result = NoResult
    /\ written = <<>>
    /\ exit_code = -1
    /\ factory_calls = <<>>
    /\ calls = <<>>
    /\ locals = NoLocals
    /\ substitutes = <<>>

\* lines 345-363 and 400-417 on a test set given by its size: the calls are
\* made on x_test[:min(1000, len(x_test))] and the rate is the share of
\* agreeing predictions
ExtractionRun ==
    /\ spc = "attack_run"
    /\ AttackType = "extraction"
    /\ LET steps == ExtractionSteps(data.n)
           k     == steps[Len(steps)].upto IN
       \E raises \in 0 .. Len(steps), agree \in Agreements(k) :
          /\ calls' = CallsMade(steps, raises)
          /\ results' = Append(results,
                IF raises # 0
                THEN FailedOutcome(attack, AttackType, "library")
                ELSE CompletedOutcome(attack, AttackType, Fraction(agree, k)))
    /\ atk_idx' = atk_idx + 1
    /\ attack' = "None"
    /\ spc' = "attack_loop"
    /\ UNCHANGED <<caller, args, data, pc, exc, scanner, call, cat_idx,
                   all_results, test_details, result, written, exit_code,
                   factory_calls>>
    /\ UNCHANGED <<predVars, moduleVars>>
    /\ UNCHANGED <<locals, substitutes>>

ExtractionNext ==
    \/ RunAttacksEnter
    \/ AttackCreate
    \/ ExtractionRun
    \/ RunAttacksReturn

SpecExtraction == ExtractionInit /\ [][ExtractionNext]_vars

\* ------------------------- run_attacks with the locals of the loop body
\* len(x_test): small test sets and those around the poisoning cap
ProcedureSampleCounts ==
    (0 .. MaxN) \cup {PoisoningCap - 1, PoisoningCap, PoisoningCap + 1}

\* rows of predicted classes for m samples: one class throughout, or the
\* classes in turn
PredictionRows(m) ==
    {[i \in 1 .. m |-> c] : c \in Classes}
    \cup {[i \in 1 .. m |-> (i + c) % NbClasses] : c \in Classes}

\* _create_substitute_model that builds one substitute and hands it out again
_create_substitute_modelCached(clf, built) == "substitute1"

\* lines 194-223: a new TensorFlowV2Classifier around a new model, shaped after
\* clf.input_shape and clf.nb_classes; built: the objects built before
_create_substitute_model(clf, built) == "substitute" \o ToString(built + 1)

\* lines 339-340
EvasionLocals(lib) ==
    IF ~data.labels \/ lib.raises = 1 THEN NoLocals
    ELSE IF lib.raises = 2 THEN [assigned |-> {"x_test_adv"}]
    ELSE [assigned    |-> {"x_test_adv", "predictions"},
          predictions |-> lib.preds]

\* lines 347-360
ExtractionLocals(lib, substitute) ==
    IF lib.raises = 1 THEN NoLocals
    ELSE IF data.kind = "unsized"
    THEN [assigned |-> {"substitute"}, substitute |-> substitute]
    ELSE IF lib.raises = 2
    THEN [assigned   |-> {"substitute", "x_test_subset"},
          substitute |-> substitute]
    ELSE IF lib.raises = 3
    THEN [assigned   |-> {"substitute", "x_test_subset", "extracted_model"},
          substitute |-> substitute]
    ELSE IF lib.raises = 4
    THEN [assigned   |-> {"substitute", "x_test_subset", "extracted_model",
                          "orig_preds"},
          substitute |-> substitute,
          orig_preds |-> lib.ref]
    ELSE [assigned     |-> {"substitute", "x_test_subset", "extracted_model",
                            "orig_preds", "stolen_preds"},
          substitute   |-> substitute,
          orig_preds   |-> lib.ref,
          stolen_preds |-> lib.preds]

\* lines 371-382
PoisoningLocals(lib) ==
    IF ~data.labels \/ data.kind = "unsized" THEN NoLocals
    ELSE IF lib.raises = 1 THEN [assigned |-> {"x_subset", "y_subset"}]
    ELSE IF lib.raises = 2
    THEN [assigned    |-> {"x_subset", "y_subset", "clean_preds"},
          clean_preds |-> lib.ref]
    ELSE IF lib.raises = 3
    THEN [assigned    |-> {"x_subset", "y_subset", "clean_preds", "poisoned_data"},
          clean_preds |-> lib.ref]
    ELSE [assigned     |-> {"x_subset", "y_subset", "clean_preds", "poisoned_data",
                            "poison_preds"},
          clean_preds  |-> lib.ref,
          poison_preds |-> lib.preds]

Locals(attack_type, lib, substitute) ==
    IF attack_type = "evasion" THEN EvasionLocals(lib)
    ELSE IF attack_type = "extraction" THEN ExtractionLocals(lib, substitute)
    ELSE PoisoningLocals(lib)

\* run_attacks(attack_type, x_test, y_test) is called on a scanner that
\* load_model or setup_endpoint has set up
ProcedureInit ==
    /\ NoPredict
    /\ NoModules
    /\ caller = "api"
    /\ args = NoArgs
    /\ data \in {[kind |-> "sized", n |-> n, labels |-> TRUE] :
                    n \in ProcedureSampleCounts}
    /\ pc = "api_call"
    /\ exc = "None"
    /\ scanner \in {load_model(NewScanner, "tensorflow", TRUE).scanner,
                    setup_endpoint(NewScanner, TRUE).scanner}
    /\ call \in {[op |-> "run_attacks", attack_type |-> Categories[i]] :
                    i \in 1 .. Len(Categories)}
    /\ spc = "run_enter"
    /\ cat_idx = 0
    /\ atk_idx = 0
    /\ attack = "None"
    /\ results = <<>>
    /\ all_results = <<>>
    /\ test_details = NoTestDetails
    /\ result = NoResult
    /\ written = <<>>
    /\ exit_code = -1
    /\ factory_calls = <<>>
    /\ calls = <<>>
    /\ locals = NoLocals
    /\ substitutes = <<>>

\* lines 336-417 with the locals: the substitute is built by line 347 and
\* handed to attack.extract by lines 353-356 of the same pass
ProcedureRun ==
    /\ spc = "attack_run"
    /\ \E lib \in LibraryOver(AttackType, Samples(AttackType),
                             PredictionRows(Samples(AttackType))) :
          LET substitute == _create_substitute_model(scanner.classifier,
                                                     Len(substitutes)) IN
          /\ RunProcedure(lib)
          /\ locals' = Locals(AttackType, lib, substitute)
          /\ substitutes' =
                IF AttackType = "extraction" /\ lib.raises # 1
                THEN Append(substitutes,
                            [object    |-> substitute,
                             built_for |-> Len(factory_calls),
                             passed_to |-> IF Len(ExtractionCalls(lib)) >= 2
                                           THEN Len(factory_calls) ELSE 0])
                ELSE substitutes

ProcedureNext ==
    \/ RunAttacksEnter
    \/ AttackCreate
    \/ ProcedureRun
    \/ RunAttacksReturn

SpecProcedure == ProcedureInit /\ [][ProcedureNext]_vars

\* --------------------- scan_model after load_model / setup_endpoint calls
\* that all succeed
\* a direct caller with a new scanner and a labelled test set
InstallInit ==
    /\ NoPredict
    /\ NoModules
    /\ caller = "api"
    /\ args = NoArgs
    /\ data \in {[kind |-> "sized", n |-> n, labels |-> TRUE] : n \in 0 .. MaxScanN}
    /\ pc = "api_idle"
    /\ exc = "None"
    /\ scanner = NewScanner
    /\ call = [op |-> "none", attack_type |-> "none"]
    /\ spc = "idle"
    /\ cat_idx = 0
    /\ atk_idx = 0
    /\ attack = "None"
    /\ results = <<>>
    /\ all_results = <<>>
    /\ test_details = NoTestDetails
    /\ result = NoResult
    /\ written = <<>>
    /\ exit_code = -1
    /\ factory_calls = <<>>
    /\ calls = <<>>
    /\ locals = NoLocals
    /\ substitutes = <<>>

\* scanner.load_model(file_path, framework) with a supported framework and a
\* file that loads
InstallModel ==
    /\ pc = "api_idle"
    /\ \E framework \in SUPPORTED_FRAMEWORKS :
          scanner' = load_model(scanner, framework, TRUE).scanner
    /\ UNCHANGED <<caller, args, data, pc, exc, scanVars, written, exit_code>>
    /\ UNCHANGED <<predVars, moduleVars>>

\* scanner.setup_endpoint(...) whose adapter is built
InstallEndpoint ==
    /\ pc = "api_idle"
    /\ scanner' = setup_endpoint(scanner, TRUE).scanner
    /\ UNCHANGED <<caller, args, data, pc, exc, scanVars, written, exit_code>>
    /\ UNCHANGED <<predVars, moduleVars>>

InstallNext ==
    \/ InstallModel
    \/ InstallEndpoint
    \/ ApiScanModel
    \/ ScanBegin
    \/ RunAttacksEnter
    \/ AttackCreate
    \/ AttackRun
    \/ RunAttacksReturn
    \/ ScanFinish
    \/ ScanExcept

SpecInstall == InstallInit /\ [][InstallNext]_vars

\* --------------------------------- static-analysis: ModelScanner.scan_file
\* most errors and most findings in what ModelScan.scan returns
MaxErrors == 2

MaxFindings == 2

\* no call on the adversarial scanner is modelled
NoAdversarial ==
    /\ NoPredict
    /\ caller = "api"
    /\ args = NoArgs
    /\ data = [kind |-> "sized", n |-> 0, labels |-> TRUE]
    /\ pc = "none"
    /\ exc = "None"
    /\ scanner = NewScanner
    /\ call = [op |-> "none", attack_type |-> "none"]
    /\ spc = "idle"
    /\ cat_idx = 0
    /\ atk_idx = 0
    /\ attack = "None"
    /\ results = <<>>
    /\ all_results = <<>>
    /\ test_details = NoTestDetails
    /\ result = NoResult
    /\ written = <<>>
    /\ exit_code = -1
    /\ factory_calls = <<>>
    /\ calls = <<>>
    /\ locals = NoLocals
    /\ substitutes = <<>>

\* the sequences over S of length at most n
SeqsUpTo(S, n) == UNION {[1 .. k -> S] : k \in 0 .. n}

\* issue['severity'] of a finding of ModelScan ("missing": the key is absent)
FindingSeverities == {"CRITICAL", "HIGH", "MEDIUM", "LOW", "missing"}

\* error['message'] of an error of ModelScan ("missing": the key is absent)
ErrorMessages == {"message", "missing"}

\* self.scanner.scan(file_path): it raises, or returns results with 'errors'
\* and 'issues'
ScanResults ==
    {[raises |-> TRUE, errors |-> <<>>, issues |-> <<>>]}
    \cup {[raises |-> FALSE, errors |-> e, issues |-> f] :
             e \in SeqsUpTo(ErrorMessages, MaxErrors),
             f \in SeqsUpTo(FindingSeverities, MaxFindings)}

\* what scan_file meets: whether the file exists, whether ModelScan takes its
\* format, and what the scan does
StaticInputs == [exists : BOOLEAN, compatible : BOOLEAN, scan : ScanResults]

\* lines 18-25
_map_severity(severity) ==
    IF severity \in {"CRITICAL", "HIGH"} THEN "error" ELSE "warning"

\* the issue of an error: of the scan that raised (lines 52-57), of an entry
\* of results['errors'] (74-79), of the except clause (127-132)
StaticErrorIssue(description) ==
    [type |-> "error", description |-> description, severity |-> "CRITICAL"]

\* lines 97-102: the issue of a finding; a missing severity is LOW
StaticFinding(severity) ==
    LET sev == IF severity = "missing" THEN "LOW" ELSE severity IN
    [type |-> _map_severity(sev), description |-> "description", severity |-> sev]

StaticReport(status, issues, summary) ==
    [module |-> "StaticAnalysis", file |-> "file_path", endpoint |-> "None",
     status |-> status, issues |-> issues, summary |-> summary]

NoStaticReport == StaticReport("none", <<>>, "none")

\* scan_file that goes on to the findings when the results hold errors
scan_fileIgnoringErrors(input) ==
    IF ~input.exists
    THEN StaticReport("error", <<StaticErrorIssue("FileNotFoundError")>>, "Scan failed")
    ELSE IF ~input.compatible
    THEN StaticReport("error", <<StaticErrorIssue("ValueError")>>, "Scan failed")
    ELSE IF input.scan.raises
    THEN StaticReport("error", <<StaticErrorIssue("str(scan_error)")>>,
                      "Scan operation failed")
    ELSE LET issues == [i \in 1 .. Len(input.scan.issues) |->
                           StaticFinding(input.scan.issues[i])] IN
         StaticReport(IF issues # <<>> THEN "unsafe" ELSE "safe", issues,
                      "Scan completed successfully")

\* scan_file (lines 27-140)
scan_file(input) ==
    IF ~input.exists
    THEN StaticReport("error", <<StaticErrorIssue("FileNotFoundError")>>, "Scan failed")
    ELSE IF ~input.compatible
    THEN StaticReport("error", <<StaticErrorIssue("ValueError")>>, "Scan failed")
    ELSE IF input.scan.raises
    THEN StaticReport("error", <<StaticErrorIssue("str(scan_error)")>>,
                      "Scan operation failed")
    ELSE IF input.scan.errors # <<>>
    THEN StaticReport("error",
                      [i \in 1 .. Len(input.scan.errors) |->
                          StaticErrorIssue(IF input.scan.errors[i] = "missing"
                                           THEN "Unknown error" ELSE "message")],
                      "Scan completed with errors")
    ELSE LET issues == [i \in 1 .. Len(input.scan.issues) |->
                           StaticFinding(input.scan.issues[i])] IN
         StaticReport(IF issues # <<>> THEN "unsafe" ELSE "safe", issues,
                      "Scan completed successfully")

StaticInit ==
    /\ NoAdversarial
    /\ llm = [pc |-> "none"]
    /\ static \in {[pc |-> "ready", input |-> i, report |-> NoStaticReport] :
                      i \in StaticInputs}

\* ModelScanner().scan_file(file_path) is called and returns its report
StaticScanFile ==
    /\ static.pc = "ready"
    /\ static' = [static EXCEPT !.pc = "done", !.report = scan_file(static.input)]
    /\ UNCHANGED <<predVars, mainVars, scanVars, llm>>

StaticNext == StaticScanFile

SpecStatic == StaticInit /\ [][StaticNext]_vars

\* ---------------------------------- llm-security: LLMSecurityScanner
\* longest probe_suites list a scanner is built with
MaxSuites == 2

\* a known suite and an unknown one
SuiteNames == {"injection", "bogus"}

\* probe_suites: a list of suite names, one name at least
ProbeSuiteLists == UNION {[1 .. k -> SuiteNames] : k \in 1 .. MaxSuites}

\* lines 130-146
PROBE_MAPPING ==
    [injection   |-> <<"prompt_injection.SystemRole",
                       "prompt_injection.DirectInstruction",
                       "prompt_injection.IndirectInstruction">>,
     xss         |-> <<"xss.MarkdownImageExfil", "xss.URLExfil",
                       "xss.HTMLInjection">>,
     prompt_leak |-> <<"prompt_leaking.SimpleCompletion",
                       "prompt_leaking.ExtendedCompletion",
                       "prompt_leaking.SystemPrompt">>]

RECURSIVE ResolveProbes(_)
\* lines 149-156: the probes of every known suite, f"probes.{probe}", in the
\* order of the list; an unknown suite adds none
ResolveProbes(suites) ==
    IF suites = <<>> THEN <<>>
    ELSE (IF Head(suites) \in DOMAIN PROBE_MAPPING
          THEN [i \in 1 .. Len(PROBE_MAPPING[Head(suites)]) |->
                   <<"probes", PROBE_MAPPING[Head(suites)][i]>>]
          ELSE <<>>)
         \o ResolveProbes(Tail(suites))

\* test_details as run_tests starts with (lines 172-179)
NewTestDetails ==
    [completed_tests  |-> 0,
     failed_tests     |-> 0,
     error_details    |-> <<>>,
     completed_probes |-> {},
     failed_probes    |-> {},
     skipped_probes   |-> {}]

\* LLMSecurityScanner.__init__ (lines 14-50) with the locals of run_tests;
\* runs: the run_tests calls made on the scanner, the one under way included
NewLLMScanner(probe_suites) ==
    [pc               |-> "ready",
     runs             |-> 1,
     resolved_probes  |-> ResolveProbes(probe_suites),
     completed_probes |-> {},
     failed_probes    |-> {},
     idx              |-> 0,
     issues           |-> <<>>,
     test_details     |-> NewTestDetails,
     report           |-> [status |-> "none"]]

\* What probewise_run and the reading of its results do for one probe: no
\* result succeeds; one succeeds and an issue is appended; one succeeds and
\* the exception comes after the issue was appended; the exception comes first
ProbeOutcomes == {"clean", "hit", "hit_then_raises", "raises"}

\* lines 207-220: the issue of a successful result
LLMIssue(probe) == [type |-> "error", severity |-> "HIGH", probe |-> probe]

\* _prepare_results with a vulnerability found ranked above an error
_prepare_resultsUnsafeFirst(resolved_probes, issues, td) ==
    LET total_probes     == Len(resolved_probes)
        failed_probes    == Cardinality(td.failed_probes)
        completed_probes == Cardinality(td.completed_probes)
        error_count      == Len(td.error_details)
        status == IF total_probes = 0 THEN "failed"
                  ELSE IF Len(issues) > 0 THEN "unsafe"
                  ELSE IF error_count > 0 THEN "error"
                  ELSE IF completed_probes = total_probes THEN "safe"
                  ELSE "inconclusive" IN
    [module   |-> "LLMSecurityTesting",
     status   |-> status,
     issues   |-> issues,
     metadata |-> [total_probes     |-> total_probes,
                   completed_probes |-> completed_probes,
                   failed_probes    |-> failed_probes,
                   error_count      |-> error_count,
                   test_details     |-> td]]

\* _prepare_results (lines 255-288); list(self.completed_probes) is kept as
\* the set it was made from, len() is its cardinality
_prepare_results(resolved_probes, issues, td) ==
    LET total_probes     == Len(resolved_probes)
        failed_probes    == Cardinality(td.failed_probes)
        completed_probes == Cardinality(td.completed_probes)
        error_count      == Len(td.error_details)
        status == IF total_probes = 0 THEN "failed"
                  ELSE IF error_count > 0 THEN "error"
                  ELSE IF Len(issues) > 0 THEN "unsafe"
                  ELSE IF completed_probes = total_probes THEN "safe"
                  ELSE "inconclusive" IN
    [module   |-> "LLMSecurityTesting",
     status   |-> status,
     issues   |-> issues,
     metadata |-> [total_probes     |-> total_probes,
                   completed_probes |-> completed_probes,
                   failed_probes    |-> failed_probes,
                   error_count      |-> error_count,
                   test_details     |-> td]]

LLMInit ==
    /\ NoAdversarial
    /\ static = [pc |-> "none"]
    /\ llm \in {NewLLMScanner(suites) : suites \in ProbeSuiteLists}

\* run_tests lines 168-196: without a resolved probe a configuration error is
\* noted and the results are prepared; the evaluator and the generator are
\* loaded, and an exception there is the critical error of lines 244-249
LLMRunTests ==
    /\ llm.pc = "ready"
    /\ IF llm.resolved_probes = <<>>
       THEN llm' = [llm EXCEPT
                       !.pc = "prepare",
                       !.test_details.error_details = Append(@, "configuration")]
       ELSE \E loads \in BOOLEAN :
               IF loads
               THEN llm' = [llm EXCEPT !.pc = "loop", !.idx = 1]
               ELSE llm' = [llm EXCEPT
                               !.pc = "prepare",
                               !.test_details.error_details = Append(@, "critical")]
    /\ UNCHANGED <<predVars, mainVars, scanVars, static>>

\* lines 199-235: one probe is run; it completes or is recorded as failed
LLMProbe ==
    /\ llm.pc = "loop"
    /\ llm.idx <= Len(llm.resolved_probes)
    /\ LET probe_name == llm.resolved_probes[llm.idx] IN
       \E outcome \in ProbeOutcomes :
          LET issues == IF outcome \in {"hit", "hit_then_raises"}
                        THEN Append(llm.issues, LLMIssue(probe_name))
                        ELSE llm.issues IN
          IF outcome \in {"clean", "hit"}
          THEN llm' = [llm EXCEPT
                          !.issues = issues,
                          !.completed_probes = @ \cup {probe_name},
                          !.test_details.completed_tests = @ + 1,
                          !.idx = @ + 1]
          ELSE llm' = [llm EXCEPT
                          !.issues = issues,
                          !.failed_probes = @ \cup {probe_name},
                          !.test_details.failed_tests = @ + 1,
                          !.test_details.error_details = Append(@, "Exception"),
                          !.idx = @ + 1]
    /\ UNCHANGED <<predVars, mainVars, scanVars, static>>

\* lines 237-242: after the loop the probe lists are copied to test_details
LLMLoopEnd ==
    /\ llm.pc = "loop"
    /\ llm.idx > Len(llm.resolved_probes)
    /\ llm' = [llm EXCEPT
                  !.pc = "prepare",
                  !.test_details.completed_probes = llm.completed_probes,
                  !.test_details.failed_probes = llm.failed_probes,
                  !.test_details.skipped_probes =
                      {llm.resolved_probes[i] : i \in 1 .. Len(llm.resolved_probes)}
                          \ (llm.completed_probes \cup llm.failed_probes)]
    /\ UNCHANGED <<predVars, mainVars, scanVars, static>>

\* lines 187 and 253: return self._prepare_results(issues, test_details)
LLMPrepareResults ==
    /\ llm.pc = "prepare"
    /\ llm' = [llm EXCEPT
                  !.pc = "done",
                  !.report = _prepare_results(llm.resolved_probes, llm.issues,
                                              llm.test_details)]
    /\ UNCHANGED <<predVars, mainVars, scanVars, static>>

LLMNext ==
    \/ LLMRunTests
    \/ LLMProbe
    \/ LLMLoopEnd
    \/ LLMPrepareResults

SpecLLM == LLMInit /\ [][LLMNext]_vars

\* most run_tests calls made on one scanner
MaxRuns == 2

\* run_tests is called again on the scanner: issues and test_details are new
\* locals (lines 171-179), completed_probes and failed_probes are the sets of
\* the scanner, which only __init__ empties (lines 43-44)
LLMRunAgain ==
    /\ llm.pc = "done"
    /\ llm.runs < MaxRuns
    /\ llm' = [llm EXCEPT
                  !.pc = "ready",
                  !.runs = @ + 1,
                  !.idx = 0,
                  !.issues = <<>>,
                  !.test_details = NewTestDetails,
                  !.report = [status |-> "none"]]
    /\ UNCHANGED <<predVars, mainVars, scanVars, static>>

LLMRerunNext ==
    \/ LLMRunTests
    \/ LLMProbe
    \/ LLMLoopEnd
    \/ LLMPrepareResults
    \/ LLMRunAgain

SpecLLMRerun == LLMInit /\ [][LLMRerunNext]_vars

\* ================================================================= claims
\* the registry of the access mode the scanner is in
ActiveRegistry == IF scanner.is_blackbox THEN blackbox_attacks ELSE whitebox_attacks

Names(rs) == [i \in 1 .. Len(rs) |-> rs[i].name]

\* run_attacks is inside its loop over attacks.items()
InLoop == spc \in {"attack_loop", "attack_run"}

\* the outcome came from the except clause of run_attacks
FromFailureBoundary(o) == o.description[1] = "Attack failed"

IsFailureRecord(o) ==
    o.type = "error" /\ o.severity = "ERROR" /\ o.success_rate = Zero

\* every outcome recorded so far in the call: of the categories already run
\* and of the one being run
Recorded == IF InLoop THEN all_results \o results ELSE all_results

AtLeastHalf(r) == r.den # 0 /\ 2 * r.num >= r.den

\* returned by scan_model from its try block
IsScanReport == result.kind = "report" /\ result.report.metadata.target # "unknown"

\* returned by scan_model from its except clause
IsScanErrorReport == result.kind = "report" /\ result.report.metadata.target = "unknown"

C1_OneOutcomePerAttack ==
    /\ InLoop =>
          /\ Len(results) = atk_idx - 1
          /\ \A i \in 1 .. Len(results) :
                /\ results[i].name = ActiveRegistry[AttackType][i]
                /\ results[i].attack_type = AttackType
                /\ FromFailureBoundary(results[i]) => IsFailureRecord(results[i])
    /\ result.kind = "outcomes" =>
          Names(result.outcomes) = ActiveRegistry[call.attack_type]
    /\ IsScanReport =>
          Names(result.report.issues) =
              ActiveRegistry.evasion \o ActiveRegistry.extraction
                  \o ActiveRegistry.poisoning

\* inside the loop a step leaves every outcome already recorded as it is and
\* adds at most the outcome of the current attack
C1_OutcomesKept ==
    (InLoop /\ InLoop') =>
        \/ results' = results
        \/ /\ Len(results') = Len(results) + 1
           /\ SubSeq(results', 1, Len(results)) = results
           /\ results'[Len(results')].name = ActiveRegistry[AttackType][Len(results')]

\* C1: run_attacks returns exactly one outcome per attack registered in the
\* category for the active access mode, in registry order, whatever attacks
\* raise; an attack that raises is recorded as type error, severity ERROR,
\* success_rate 0.0, and recording it changes no other outcome of the run.
C1_FailureIsolation == [](C1_OneOutcomePerAttack) /\ [][C1_OutcomesKept]_vars

\* C1 witness: a run returned in which an attack that raised is followed by
\* an attack that completed
C1_Witness ==
    /\ result.kind = "outcomes"
    /\ \E i, j \in 1 .. Len(result.outcomes) :
          /\ i < j
          /\ FromFailureBoundary(result.outcomes[i])
          /\ ~FromFailureBoundary(result.outcomes[j])

\* C2 (as claimed): every attack outcome in the issues of a report has a
\* success_rate with 0.0 <= success_rate <= 1.0, for every test-set size
C2_SuccessRateInUnitInterval ==
    result.kind = "report" =>
        \A i \in 1 .. Len(result.report.issues) :
            "success_rate" \in DOMAIN result.report.issues[i] =>
                InUnitInterval(result.report.issues[i].success_rate)

\* C3 (as claimed): any two outcomes of run_attacks, completed or caught by
\* the failure boundary, with equal success_rate have equal severity and type
C3_SeverityFunctionOfRate ==
    \A i, j \in 1 .. Len(Recorded) :
        Recorded[i].success_rate = Recorded[j].success_rate =>
            /\ Recorded[i].severity = Recorded[j].severity
            /\ Recorded[i].type = Recorded[j].type

\* C3 (amended): any two outcomes of attacks that completed without raising
\* with equal success_rate have equal severity and equal type
C3_CompletedSeverityFunctionOfRate ==
    LET rs == Recorded IN
    \A i, j \in 1 .. Len(rs) :
        (/\ ~FromFailureBoundary(rs[i])
         /\ ~FromFailureBoundary(rs[j])
         /\ rs[i].success_rate = rs[j].success_rate) =>
            /\ rs[i].severity = rs[j].severity
            /\ rs[i].type = rs[j].type

\* C3 witness: two completed outcomes of different categories share the
\* success rate 0.0, next to a failed outcome that has 0.0 as well
C3_Witness ==
    \E i, j, k \in 1 .. Len(Recorded) :
        /\ ~FromFailureBoundary(Recorded[i])
        /\ ~FromFailureBoundary(Recorded[j])
        /\ Recorded[i].attack_type # Recorded[j].attack_type
        /\ Recorded[i].success_rate = Zero
        /\ Recorded[j].success_rate = Zero
        /\ FromFailureBoundary(Recorded[k])

\* C4 (as claimed): for every attack that completes without raising, type is
\* error and severity HIGH exactly when success_rate >= 0.5, and type is
\* warning and severity MEDIUM exactly when success_rate < 0.5
C4_ThresholdMapping ==
    \A i \in 1 .. Len(Recorded) :
        ~FromFailureBoundary(Recorded[i]) =>
            /\ (Recorded[i].type = "error" /\ Recorded[i].severity = "HIGH")
                   <=> AtLeastHalf(Recorded[i].success_rate)
            /\ (Recorded[i].type = "warning" /\ Recorded[i].severity = "MEDIUM")
                   <=> LessThanHalf(Recorded[i].success_rate)

RECURSIVE CountCategory(_, _)
CountCategory(rs, c) ==
    IF rs = <<>> THEN 0
    ELSE (IF Head(rs).attack_type = c THEN 1 ELSE 0) + CountCategory(Tail(rs), c)

\* C5 (as claimed): a scan of a remote (black-box) classifier instantiates no
\* poisoning attack and reports 0 poisoning outcomes; a white-box scan reports
\* as many as the white-box poisoning registry holds
C5_NoPoisoningInBlackBox ==
    call.op = "scan_model" =>
        /\ scanner.is_blackbox =>
              /\ \A i \in 1 .. Len(factory_calls) : factory_calls[i][1] # "poisoning"
              /\ IsScanReport => CountCategory(result.report.issues, "poisoning") = 0
        /\ (~scanner.is_blackbox /\ IsScanReport) =>
              CountCategory(result.report.issues, "poisoning")
                  = Len(whitebox_attacks.poisoning)

HasError(issues) == \E i \in 1 .. Len(issues) : issues[i].type = "error"

\* C6 (as claimed): in every report returned by scan_model, status is unsafe
\* if and only if some issue has type error
C6_UnsafeIffError ==
    result.kind = "report" =>
        (result.report.status = "unsafe" <=> HasError(result.report.issues))

\* C6 (amended): in every report scan_model returns from its try block, status
\* is unsafe if and only if some issue has type error, and safe otherwise; the
\* whole-scan error report of its except clause has status error and a single
\* issue of type error
C6_StatusFromOutcomes ==
    /\ IsScanReport =>
          /\ result.report.status = "unsafe" <=> HasError(result.report.issues)
          /\ result.report.status = "safe" <=> ~HasError(result.report.issues)
    /\ IsScanErrorReport =>
          /\ result.report.status = "error"
          /\ Len(result.report.issues) = 1
          /\ result.report.issues[1].type = "error"

\* C6 witness: a report is unsafe although no attack reached 0.5: an attack
\* caught by the failure boundary is its only error
C6_Witness ==
    /\ IsScanReport
    /\ result.report.status = "unsafe"
    /\ \E i \in 1 .. Len(result.report.issues) :
          FromFailureBoundary(result.report.issues[i])
    /\ \A i \in 1 .. Len(result.report.issues) :
          result.report.issues[i].type = "error"
              => FromFailureBoundary(result.report.issues[i])
    /\ \E i \in 1 .. Len(result.report.issues) :
          result.report.issues[i].type = "warning"

\* C7 (as claimed): every failure mode of a command-line scan ends with main
\* having written a report and returned an exit code, in both output formats:
\* no exception leaves main
C7_MainAlwaysReports ==
    caller = "main" =>
        /\ pc # "raised"
        /\ pc = "done" => (Len(written) = 1 /\ exit_code \in {0, 1, 2})

\* C8: the exit code main returns is 0 when the report it wrote has status
\* safe, 1 when unsafe, 2 when error, and main returns no other code and
\* none without a written report.
C8_ExitCodeFromStatus ==
    caller = "main" =>
        /\ exit_code \in {-1, 0, 1, 2}
        /\ exit_code # -1 <=> pc = "done"
        /\ pc = "done" =>
              /\ Len(written) = 1
              /\ written[1].status \in {"safe", "unsafe", "error"}
              /\ written[1].status = "safe" <=> exit_code = 0
              /\ written[1].status = "unsafe" <=> exit_code = 1
              /\ written[1].status = "error" <=> exit_code = 2

\* C8 witness: main returned 2 for the whole-scan error report of scan_model
C8_Witness ==
    /\ caller = "main"
    /\ pc = "done"
    /\ exit_code = 2
    /\ written[1].metadata.target = "unknown"

\* --framework, --input-shape or --num-classes is missing
ConfigurationError(a) ==
    \/ a.target = "file" /\ a.framework = "None"
    \/ a.target = "endpoint" /\ (a.input_shape = "None" \/ a.num_classes = "None")

\* C9 (as claimed): with a configuration error no classifier is built and no
\* attack instantiated, and main ends having written a report with exactly
\* one issue and status error and having returned 2
C9_ConfigurationErrorReport ==
    (caller = "main" /\ ConfigurationError(args) /\ data.kind # "unreadable") =>
        /\ scanner.classifier = "None"
        /\ factory_calls = <<>>
        /\ pc \in {"done", "raised"} =>
              /\ Len(written) = 1
              /\ Len(written[1].issues) = 1
              /\ written[1].status = "error"
              /\ exit_code = 2

\* the body the template asks for: every key kept, the placeholder replaced
\* by the batch wherever it stands
Substituted(request_format, x) ==
    [k \in DOMAIN request_format.items |-> Replace(request_format.items[k], x)]

\* C10 (as claimed): with a request template every body predict_fn sends is
\* the template with <input> replaced by the batch, all keys of the template
\* kept; the default body {"instances": batch} is sent only without a template
C10_TemplateBody ==
    \A i \in 1 .. Len(posts) :
        IF endpoint.request_format.given
        THEN /\ posts[i].json = Substituted(endpoint.request_format, posts[i].x)
             /\ posts[i].json # DefaultBody(posts[i].x)
        ELSE posts[i].json = DefaultBody(posts[i].x)

\* the response the last finished predict_fn call received
Answered == ppc = "ready" /\ responses # <<>>

LastResponse == responses[Len(responses)]

SuccessStatus(status) == status \in 200 .. 299

RECURSIVE HasPath(_, _)
\* response[k1][k2]...[kn] exists
HasPath(json, keys) ==
    \/ keys = <<>>
    \/ /\ json.t = "dict"
       /\ Head(keys) \in DOMAIN json.d
       /\ HasPath(json.d[Head(keys)], Tail(keys))

RECURSIVE Found(_, _)
\* response[k1][k2]...[kn]
Found(json, keys) ==
    IF keys = <<>> THEN json ELSE Found(json.d[Head(keys)], Tail(keys))

\* C11 (as claimed): with no request template every predict call issues one
\* POST whose body is {"instances": batch}; it raises when the HTTP status is
\* not a success status, and otherwise returns the value found by walking the
\* response along the response-key path (the whole body without a key)
C11_DefaultBodyAndAnswer ==
    ~endpoint.request_format.given =>
        /\ Len(posts) = Len(responses) + (IF ppc = "posted" THEN 1 ELSE 0)
        /\ \A i \in 1 .. Len(posts) : posts[i].json = DefaultBody(posts[i].x)
        /\ Answered =>
              IF ~SuccessStatus(LastResponse.status)
              THEN prediction.kind = "raised"
              ELSE HasPath(LastResponse.json, endpoint.response_key.parts) =>
                      prediction = [kind  |-> "returned",
                                    value |-> Found(LastResponse.json,
                                                    endpoint.response_key.parts)]

\* C12 (as claimed): for a dotted --response-key k1.k2...kn (n >= 2) the value
\* main hands to setup_endpoint makes predict return response[k1][k2]...[kn];
\* predict fails only for a failed request or a path the response lacks
C12_DottedKeyWalked ==
    \A k \in KeyStrings :
        (/\ Len(k) >= 2
         /\ endpoint.response_key = parse_response_key(k)
         /\ Answered
         /\ SuccessStatus(LastResponse.status)) =>
            IF HasPath(LastResponse.json, k)
            THEN /\ prediction.kind = "returned"
                 /\ prediction.value = Found(LastResponse.json, k)
            ELSE prediction.kind = "raised"

\* the attack that has just been run was an extraction attack for which
\* _create_substitute_model raised
SubstituteFailed ==
    /\ spc = "attack_loop"
    /\ AttackType = "extraction"
    /\ Len(calls) = 1
    /\ calls[1].fn = "_create_substitute_model"
    /\ calls[1].raised

\* C14 (as claimed): when no substitute model can be built, the extraction
\* attack yields an outcome with type error, severity ERROR, success_rate 0.0
\* and a description that names the substitute-model construction failure;
\* its extract step is not called and the loop goes on
C14_SubstituteFailureNamed ==
    SubstituteFailed =>
        LET o == results[Len(results)] IN
        /\ Len(results) = atk_idx - 1
        /\ o.name = Attacks[atk_idx - 1]
        /\ IsFailureRecord(o)
        /\ o.description = <<"Attack failed",
                             "Could not create substitute model for extraction attack">>
        /\ \A i \in 1 .. Len(calls) : calls[i].fn # "attack.extract"

\* the calls of the extraction procedure that are handed samples
TakesSamples(c) ==
    c.fn \in {"attack.extract", "classifier.predict", "extracted_model.predict"}

\* C13: for a test set of n samples every extraction attack hands exactly
\* min(1000, n) samples, the first ones of the test set, to the extraction
\* call and to both prediction passes that are compared; with n = 5000
\* exactly 1000 samples are used.
C13_ExtractionSubset ==
    (InLoop /\ AttackType = "extraction") =>
        \A i \in 1 .. Len(calls) :
            TakesSamples(calls[i]) =>
                /\ calls[i].from = 0
                /\ calls[i].upto = (IF data.n <= 1000 THEN data.n ELSE 1000)
                /\ data.n = 5000 => calls[i].upto - calls[i].from = 1000

\* C13 witness: an extraction attack completed on a test set of 5000 samples:
\* extract and both prediction passes were called
C13_Witness ==
    /\ AttackType = "extraction"
    /\ spc = "attack_loop"
    /\ data.n = 5000
    /\ Len(calls) = 4
    /\ \A i \in 2 .. 4 : TakesSamples(calls[i]) /\ ~calls[i].raised
    /\ ~FromFailureBoundary(results[Len(results)])

RECURSIVE CountFailed(_)
\* the outcomes of rs that came from the failure boundary
CountFailed(rs) ==
    IF rs = <<>> THEN 0
    ELSE (IF FromFailureBoundary(Head(rs)) THEN 1 ELSE 0) + CountFailed(Tail(rs))

\* C15 (as claimed): in a report failed_tests is the number of outcomes that
\* came from the failure boundary (a vulnerability found, type error through a
\* success_rate >= 0.5, is not a failed test) and completed_tests is the
\* length of the outcome list; stated for the reports of scan_model's try block
C15_FailedTestsFromBoundary ==
    IsScanReport =>
        LET td == result.report.metadata.test_details IN
        /\ td.failed_tests = CountFailed(result.report.issues)
        /\ td.completed_tests = Len(result.report.issues)

\* every report there is: the one scan_model returned and those main wrote
Reports ==
    (IF result.kind = "report" THEN {result.report} ELSE {})
        \cup {written[i] : i \in 1 .. Len(written)}

\* C16 (as claimed): in every report of scan_model or main, whole-scan error
\* reports included, exactly one of file and endpoint is populated
C16_ExactlyOneTarget ==
    \A r \in Reports : (r.file # "None") # (r.endpoint # "None")

\* C17 (as claimed): every issue of every report, the synthetic issue of a
\* whole-scan or setup error report included, has a severity in
\* {LOW, MEDIUM, HIGH, ERROR} and a type in {warning, error}
C17_SeverityAndTypeRange ==
    \A r \in Reports :
        \A i \in 1 .. Len(r.issues) :
            /\ r.issues[i].severity \in {"LOW", "MEDIUM", "HIGH", "ERROR"}
            /\ r.issues[i].type \in {"warning", "error"}

\* C18: on a scanner on which neither load_model nor setup_endpoint has
\* succeeded, run_attacks raises ValueError for every attack type, produces no
\* outcome and instantiates no attack; scan_model does not raise and returns
\* a report with status error.
C18_NoClassifier ==
    scanner.classifier = "None" =>
        /\ factory_calls = <<>>
        /\ results = <<>>
        /\ all_results = <<>>
        /\ result.kind # "outcomes"
        /\ (call.op = "run_attacks" /\ spc = "idle") =>
              /\ result.kind = "raised"
              /\ result.error = "ValueError: Classifier not initialized"
        /\ (call.op = "scan_model" /\ spc = "idle") =>
              /\ result.kind = "report"
              /\ result.report.status = "error"

\* C18 witness: load_model failed, and run_attacks('poisoning') raised
C18_Witness ==
    /\ scanner.classifier = "None"
    /\ scanner.framework # "None"
    /\ call = [op |-> "run_attacks", attack_type |-> "poisoning"]
    /\ result.kind = "raised"

\* the file is missing, its format is unsupported, the scan raises, or the
\* results of the scan hold errors
StaticErrorCase(input) ==
    \/ ~input.exists
    \/ ~input.compatible
    \/ input.scan.raises
    \/ input.scan.errors # <<>>

\* C19: scan_file always returns a report; its status is error, with at least
\* one issue and every issue of severity CRITICAL and type error, when the
\* file does not exist, the format is unsupported, the scan raises or its
\* results hold errors (the findings are then dropped); otherwise it is unsafe
\* if and only if the scan reported at least one issue, and safe if none.
C19_StaticStatus ==
    static.pc = "done" =>
        LET r == static.report IN
        IF StaticErrorCase(static.input)
        THEN /\ r.status = "error"
             /\ Len(r.issues) >= 1
             /\ \A i \in 1 .. Len(r.issues) :
                   r.issues[i].severity = "CRITICAL" /\ r.issues[i].type = "error"
        ELSE /\ r.status = "unsafe" <=> Len(static.input.scan.issues) >= 1
             /\ r.status = "safe" <=> Len(static.input.scan.issues) = 0
             /\ Len(r.issues) = Len(static.input.scan.issues)

\* C19 witness: the scan returned errors together with findings, and the
\* report has status error and as many issues as there were errors
C19_Witness ==
    /\ static.pc = "done"
    /\ static.input.exists
    /\ static.input.compatible
    /\ Len(static.input.scan.errors) = 1
    /\ Len(static.input.scan.issues) = 2
    /\ static.report.status = "error"
    /\ Len(static.report.issues) = 1

\* C20: _prepare_results chooses the status by strict precedence: failed when
\* no probe is resolved; otherwise error when error_details is not empty;
\* otherwise unsafe when there are issues; otherwise safe when as many probes
\* completed as were resolved; otherwise inconclusive. A report is safe only
\* if every resolved probe completed, with no issue and no error.
C20_StatusPrecedence ==
    llm.pc = "done" =>
        LET r  == llm.report
            td == llm.test_details IN
        /\ r.status = "failed" <=> llm.resolved_probes = <<>>
        /\ r.status = "error" <=>
              (llm.resolved_probes # <<>> /\ td.error_details # <<>>)
        /\ r.status = "unsafe" <=>
              (llm.resolved_probes # <<>> /\ td.error_details = <<>>
                  /\ llm.issues # <<>>)
        /\ r.status = "safe" <=>
              (llm.resolved_probes # <<>> /\ td.error_details = <<>>
                  /\ llm.issues = <<>>
                  /\ Cardinality(td.completed_probes) = Len(llm.resolved_probes))
        /\ r.status = "inconclusive" <=>
              (llm.resolved_probes # <<>> /\ td.error_details = <<>>
                  /\ llm.issues = <<>>
                  /\ Cardinality(td.completed_probes) # Len(llm.resolved_probes))
        /\ r.status = "safe" =>
              /\ \A i \in 1 .. Len(llm.resolved_probes) :
                    llm.resolved_probes[i] \in llm.completed_probes
              /\ r.issues = <<>>
              /\ td.failed_tests = 0

\* C20 witness: a probe found an issue and another one failed: the report has
\* issues and its status is error
C20_Witness ==
    /\ llm.pc = "done"
    /\ llm.report.status = "error"
    /\ llm.report.issues # <<>>
    /\ llm.test_details.completed_tests >= 1
    /\ llm.test_details.failed_tests >= 1

\* <<attack_type, name>> of every attack of category c, in registration order
Pairs(c, names) == [i \in 1 .. Len(names) |-> <<c, names[i]>>]

\* the order the claim gives: evasion, then extraction, then poisoning
ExecutionOrder ==
    IF call.op = "scan_model"
    THEN Pairs("evasion", ActiveRegistry.evasion)
             \o Pairs("extraction", ActiveRegistry.extraction)
             \o Pairs("poisoning", ActiveRegistry.poisoning)
    ELSE Pairs(call.attack_type, ActiveRegistry[call.attack_type])

\* a scanner method has been entered
Called == call.op # "none" /\ spc # "scan_begin"

C21_InOrder ==
    Called =>
        LET rs    == IF call.op = "scan_model" THEN Recorded ELSE results
            n     == Len(factory_calls)
            order == ExecutionOrder IN
        /\ n <= Len(order)
        /\ \A i \in 1 .. n :
              <<factory_calls[i][1], factory_calls[i][2]>> = order[i]
        /\ Len(rs) = n - (IF spc = "attack_run" THEN 1 ELSE 0)
        /\ \A i \in 1 .. Len(rs) :
              <<rs[i].attack_type, rs[i].name>> = order[i]
        /\ IsScanReport =>
              /\ n = Len(order)
              /\ result.report.issues = rs

\* a factory is called only when every attack instantiated before it has its
\* outcome appended
C21_NoOverlap ==
    factory_calls' # factory_calls =>
        /\ Len(factory_calls') = Len(factory_calls) + 1
        /\ Len(IF call.op = "scan_model" THEN Recorded ELSE results)
               = Len(factory_calls)

\* C21: within a scan attack invocations are totally ordered and never
\* overlap: an attack is instantiated only after the outcome of the previous
\* attack has been appended, categories are processed in registry order
\* (evasion, then extraction, then poisoning), attacks within a category in
\* registration order, and the issues list is in that execution order.
C21_SequentialAttacks == [](C21_InOrder) /\ [][C21_NoOverlap]_vars

\* C21 witness: a black-box scan returned its report after six factory
\* calls, one of them, not the last, having raised
C21_Witness ==
    /\ IsScanReport
    /\ scanner.is_blackbox
    /\ Len(factory_calls) = 6
    /\ FromFailureBoundary(result.report.issues[2])
    /\ ~FromFailureBoundary(result.report.issues[6])

\* the classifier every factory called so far was given is the scanner's
C22_SameClassifier ==
    \A i \in 1 .. Len(factory_calls) :
        /\ factory_calls[i][3] = scanner.classifier
        /\ factory_calls[i][3] = factory_calls[1][3]

\* a step of run_attacks or scan_model, the call and the return included,
\* leaves every field of the scanner as it is
C22_ScannerUnchanged ==
    (spc # "idle" \/ spc' # "idle") =>
        /\ scanner'.classifier = scanner.classifier
        /\ scanner'.is_blackbox = scanner.is_blackbox
        /\ scanner'.framework = scanner.framework
        /\ scanner'.attack_params = scanner.attack_params
        /\ scanner'.whitebox_attacks = scanner.whitebox_attacks
        /\ scanner'.blackbox_attacks = scanner.blackbox_attacks

\* C22: run_attacks and scan_model leave the scanner's classifier reference,
\* is_blackbox, framework, attack parameter bag and both attack registries
\* unchanged, whether attacks complete or raise; the same classifier object is
\* passed to every attack factory of the scan.
C22_ScannerFrame == [](C22_SameClassifier) /\ [][C22_ScannerUnchanged]_vars

\* C22 witness: a white-box scan returned its report, with an attack that
\* raised and an extraction attack that completed, on the scanner load_model
\* left
C22_Witness ==
    /\ IsScanReport
    /\ scanner = load_model(NewScanner, "tensorflow", TRUE).scanner
    /\ Len(factory_calls) = 7
    /\ \E i, j \in 1 .. Len(result.report.issues) :
          /\ FromFailureBoundary(result.report.issues[i])
          /\ ~FromFailureBoundary(result.report.issues[j])
          /\ result.report.issues[j].attack_type = "extraction"

\* the objects _create_substitute_model has returned
SubstituteObjects == {substitutes[i].object : i \in 1 .. Len(substitutes)}

\* the attack invocations (by the number of their factory call) that were
\* handed the object o as thieved_classifier
PassedTo(o) ==
    {substitutes[i].passed_to : i \in {j \in 1 .. Len(substitutes) :
                                          /\ substitutes[j].object = o
                                          /\ substitutes[j].passed_to # 0}}

\* an outcome holds its six values and none of them is a substitute
HoldsNoSubstitute(o) ==
    /\ DOMAIN o = {"type", "name", "description", "severity", "attack_type",
                   "success_rate"}
    /\ {o.type, o.name, o.severity, o.attack_type} \cap SubstituteObjects = {}

\* C23: each extraction attack invocation builds its own new substitute model:
\* no substitute object is ever passed to two attack invocations, the
\* substitute is never the target classifier itself, and no reference to a
\* substitute is kept in scanner state or in the report after the attack's
\* outcome is recorded.
C23_OwnSubstitute ==
    /\ \A i, j \in 1 .. Len(substitutes) :
          i # j => substitutes[i].object # substitutes[j].object
    /\ \A i \in 1 .. Len(substitutes) :
          /\ substitutes[i].passed_to \in {0, substitutes[i].built_for}
          /\ factory_calls[substitutes[i].built_for][1] = "extraction"
          /\ substitutes[i].object # factory_calls[substitutes[i].built_for][3]
    /\ \A o \in SubstituteObjects : Cardinality(PassedTo(o)) <= 1
    /\ {scanner.classifier, scanner.framework} \cap SubstituteObjects = {}
    /\ \A i \in 1 .. Len(results) : HoldsNoSubstitute(results[i])
    /\ result.kind = "outcomes" =>
          \A i \in 1 .. Len(result.outcomes) : HoldsNoSubstitute(result.outcomes[i])

\* C23 witness: run_attacks('extraction') returned after both of its attacks
\* were handed a substitute, the first one having completed
C23_Witness ==
    /\ result.kind = "outcomes"
    /\ call.attack_type = "extraction"
    /\ Len(substitutes) = 2
    /\ substitutes[1].passed_to = 1
    /\ substitutes[2].passed_to = 2
    /\ ~FromFailureBoundary(result.outcomes[1])

\* the outcome is the failure record of the except clause
IsFailure(o) == FromFailureBoundary(o) /\ IsFailureRecord(o)

\* every call of the attack procedure that has just run returned
AllCallsReturned(n) ==
    /\ Len(calls) = n
    /\ \A i \in 1 .. n : ~calls[i].raised

\* C24: when run_attacks is called without labels (y_test is None), every
\* registered evasion attack and every registered poisoning attack yields a
\* failure outcome (type error, severity ERROR, success_rate 0.0) without its
\* generate/poison step or any classifier prediction being invoked, while
\* extraction attacks are unaffected by the absence of labels.
C24_LabelsRequired ==
    (call.op = "run_attacks" /\ ~data.labels /\ scanner.classifier # "None") =>
        /\ call.attack_type \in {"evasion", "poisoning"} =>
              /\ calls = <<>>
              /\ \A i \in 1 .. Len(results) : IsFailure(results[i])
              /\ result.kind = "outcomes" =>
                    /\ Names(result.outcomes) = ActiveRegistry[call.attack_type]
                    /\ \A i \in 1 .. Len(result.outcomes) :
                          IsFailure(result.outcomes[i])
        /\ (call.attack_type = "extraction" /\ spc = "attack_loop"
               /\ AllCallsReturned(4)) =>
              LET o == results[Len(results)] IN
              /\ ~FromFailureBoundary(o)
              /\ InUnitInterval(o.success_rate) \/ data.n = 0

\* C24 witness: without labels run_attacks('evasion') returned, every factory
\* having returned its attack and every outcome being the failure that asks
\* for y_test
C24_Witness ==
    /\ call = [op |-> "run_attacks", attack_type |-> "evasion"]
    /\ ~data.labels
    /\ data.n >= 1
    /\ result.kind = "outcomes"
    /\ Len(result.outcomes) >= 3
    /\ \A i \in 1 .. Len(result.outcomes) :
          result.outcomes[i].description
              = <<"Attack failed", "y_test required for evasion attacks">>

\* the attack procedure that has just run assigned the local v
Assigned(v) == spc = "attack_loop" /\ v \in locals.assigned

\* the float literal 1.0
One == [num |-> 1, den |-> 1]

\* how many of the first k samples the rows p and q give different classes
Differing(p, q, k) == Cardinality({i \in 1 .. k : p[i] # q[i]})

\* how many of the first k samples the rows p and q give the same class
Agreeing(p, q, k) == Cardinality({i \in 1 .. k : p[i] = q[i]})

\* C25 (as claimed): each category keeps its own comparison direction: for
\* evasion success_rate = (samples whose predicted class on the perturbed
\* input differs from the class of the true label) / n; for extraction
\* success_rate = (capped samples where the substitute's predicted class
\* equals the classifier's) / (capped samples). A classifier that is never
\* fooled gives evasion 0.0, a substitute that copies the classifier perfectly
\* gives extraction 1.0
C25_ComparisonDirections ==
    /\ (AttackType = "evasion" /\ Assigned("predictions")) =>
          LET o == results[Len(results)]
              fooled == Differing(locals.predictions, YTest, data.n) IN
          /\ o.success_rate = Fraction(fooled, data.n)
          /\ fooled = 0 => o.success_rate = Zero
    /\ (AttackType = "extraction" /\ Assigned("stolen_preds")) =>
          LET o == results[Len(results)]
              k == IF data.n <= 1000 THEN data.n ELSE 1000
              copied == Agreeing(locals.stolen_preds, locals.orig_preds, k) IN
          /\ o.success_rate = Fraction(copied, k)
          /\ copied = k => o.success_rate = One

\* the call c was handed the samples x_test[0:k]
OnSubset(c, k) == c.from = 0 /\ c.upto = k

\* C26: for the backdoor poisoning attack on a test set of n samples, the
\* classifier's predictions on the clean first min(100, n) samples are queried
\* before the poisoned inputs are produced and predicted, both on the same
\* subset, and success_rate = (number of those samples whose predicted class
\* on the poisoned input differs from its predicted class on the clean
\* input) / min(100, n).
C26_CleanBeforePoisoned ==
    (AttackType = "poisoning" /\ spc = "attack_loop" /\ calls # <<>>) =>
        LET k == IF data.n <= 100 THEN data.n ELSE 100
            o == results[Len(results)] IN
        /\ o.name = "backdoor"
        /\ calls[1].fn = "classifier.predict" /\ OnSubset(calls[1], k)
        /\ Len(calls) >= 2 =>
              /\ ~calls[1].raised
              /\ calls[2].fn = "attack.poison" /\ OnSubset(calls[2], k)
        /\ Len(calls) >= 3 =>
              /\ ~calls[2].raised
              /\ calls[3].fn = "classifier.predict" /\ OnSubset(calls[3], k)
        /\ Len(calls) <= 3
        /\ "poisoned_data" \in locals.assigned => "clean_preds" \in locals.assigned
        /\ "poison_preds" \in locals.assigned =>
              /\ Len(locals.clean_preds) = k
              /\ Len(locals.poison_preds) = k
              /\ o.success_rate
                     = Fraction(Differing(locals.poison_preds, locals.clean_preds, k), k)
        /\ ~FromFailureBoundary(o) <=> "poison_preds" \in locals.assigned

\* C26 witness: on 101 samples the backdoor attack completed with its three
\* calls, the poisoned prediction differing from the clean one on 50 of the
\* 100 samples used
C26_Witness ==
    /\ AttackType = "poisoning"
    /\ spc = "attack_loop"
    /\ data.n = 101
    /\ AllCallsReturned(3)
    /\ "poison_preds" \in locals.assigned
    /\ Differing(locals.poison_preds, locals.clean_preds, 100) = 50
    /\ results[Len(results)].success_rate = [num |-> 1, den |-> 2]

\* is_blackbox tells whether the installed classifier is the remote adapter
C27_ModeMatchesClassifier == scanner.is_blackbox <=> scanner.classifier = "remote"

\* a step in which a load_model call raised leaves the three fields as they
\* were
C27_FailedLoadKeeps ==
    \A framework \in ApiFrameworks :
        LET r == load_model(scanner, framework, FALSE) IN
        (pc = "api_idle" /\ pc' = "api_idle" /\ scanner' = r.scanner) =>
            /\ scanner'.classifier = scanner.classifier
            /\ scanner'.framework = scanner.framework
            /\ scanner'.is_blackbox = scanner.is_blackbox

\* C27 (as claimed): after any sequence of load_model and setup_endpoint calls
\* on one scanner, calls that raise included, is_blackbox is true if and only
\* if the installed classifier is the remote endpoint adapter, so that the
\* registry _get_applicable_attacks selects matches the access mode of the
\* classifier; a load_model call that raises leaves classifier, framework and
\* is_blackbox as they were
C27_AccessModeInvariant ==
    [](C27_ModeMatchesClassifier) /\ [][C27_FailedLoadKeeps]_vars

\* C28 (as claimed): after any sequence of successful load_model and
\* setup_endpoint calls on one scanner, the framework reported in the scan
\* metadata is the framework of the currently installed classifier, and it is
\* None whenever the installed classifier is the remote endpoint adapter
\* (target = endpoint)
C28_ReportedFramework ==
    IsScanReport =>
        LET m == result.report.metadata IN
        /\ scanner.classifier = "inprocess" =>
              /\ m.target = "file"
              /\ m.framework \in SUPPORTED_FRAMEWORKS
              /\ m.framework = scanner.framework
        /\ scanner.classifier = "remote" =>
              /\ m.target = "endpoint"
              /\ m.framework = "None"

\* C29 (as claimed): in every report of a scan that reached the attack loop,
\* for both access modes, evasion_tests + extraction_tests + poisoning_tests
\* = completed_tests = the number of issues, and for each category the
\* reported test count is the number of issues with that attack_type
C29_CountsAccountForOutcomes ==
    IsScanReport =>
        LET td     == result.report.metadata.test_details
            issues == result.report.issues IN
        /\ td.evasion_tests + td.extraction_tests + td.poisoning_tests
               = td.completed_tests
        /\ td.completed_tests = Len(issues)
        /\ td.evasion_tests = CountCategory(issues, "evasion")
        /\ td.extraction_tests = CountCategory(issues, "extraction")
        /\ td.poisoning_tests = CountCategory(issues, "poisoning")

\* run_tests returned its report and the except clause of lines 244-249 was
\* not entered
ReturnedWithoutCriticalError ==
    /\ llm.pc = "done"
    /\ \A i \in 1 .. Len(llm.test_details.error_details) :
          llm.test_details.error_details[i] # "critical"

\* C30 (as claimed): in every report run_tests returns without a critical
\* error, a second or later run_tests call on the same scanner and probe
\* suites listed more than once included, each resolved probe is in exactly
\* one of completed_probes and failed_probes (the two are disjoint and
\* skipped_probes is empty), and completed_tests + failed_tests is the number
\* of resolved probes
C30_ProbePartition ==
    ReturnedWithoutCriticalError =>
        LET td == llm.report.metadata.test_details IN
        /\ \A i \in 1 .. Len(llm.resolved_probes) :
              (llm.resolved_probes[i] \in td.completed_probes)
                  # (llm.resolved_probes[i] \in td.failed_probes)
        /\ td.completed_probes \cap td.failed_probes = {}
        /\ td.skipped_probes = {}
        /\ td.completed_tests + td.failed_tests = Len(llm.resolved_probes)

====
